---- MODULE Spec2Model ----
(***************************************************************************)
(* State-machine model of the Posts API backend (Express + Mongoose):      *)
(* the credential store (User collection), the token issuer               *)
(* (generateToken), the auth gate (verifyToken) wired in front of the      *)
(* protected routes, the user controllers and the post controllers.        *)
(*                                                                         *)
(* Strings are sequences of one-character strings, so that toLowerCase,    *)
(* trim, startsWith and split are computed character by character.         *)
(* A JavaScript value is a record [t, s, n]: t its typeof, s its text      *)
(* when it is a string, n its value when it is a number.                   *)
(***************************************************************************)
EXTENDS Integers, Sequences, FiniteSets, Bags, TLC

(***************************************************************************)
(* Bounds of the model.                                                    *)
(***************************************************************************)
\* ids the store may assign in one behaviour (ObjectIds are never reused)
MaxIds == 2
\* ids the Post collection may assign in one behaviour of SpecGate
MaxPostIds == 1
\* ids the Post collection may assign in one behaviour of SpecPosts
MaxPosts == 2
\* registerUser requests suspended at an await at the same time
MaxInFlight == 2
\* milliseconds of one second in which posts are created in SpecPosts
MaxMillis == 3

(***************************************************************************)
(* JavaScript values and strings.                                          *)
(***************************************************************************)
Str(s) == [t |-> "string", s |-> s, n |-> 0]

Num(n) == [t |-> "number", s |-> <<>>, n |-> n]

Undefined == [t |-> "undefined", s |-> <<>>, n |-> 0]

\* !v of JavaScript: undefined, the empty string and 0 are falsy
Falsy(v) ==
  \/ v.t = "undefined"
  \/ v.t = "string" /\ v.s = <<>>
  \/ v.t = "number" /\ v.n = 0

UpperCase == <<"A", "B", "C", "D", "E", "F", "G", "H", "I", "J", "K", "L", "M",
               "N", "O", "P", "Q", "R", "S", "T", "U", "V", "W", "X", "Y", "Z">>

LowerCase == <<"a", "b", "c", "d", "e", "f", "g", "h", "i", "j", "k", "l", "m",
               "n", "o", "p", "q", "r", "s", "t", "u", "v", "w", "x", "y", "z">>

Digits == {"0", "1", "2", "3", "4", "5", "6", "7", "8", "9"}

Range(f) == {f[i] : i \in DOMAIN f}

DigitValue(c) ==
  CASE c = "0" -> 0 [] c = "1" -> 1 [] c = "2" -> 2 [] c = "3" -> 3 [] c = "4" -> 4
    [] c = "5" -> 5 [] c = "6" -> 6 [] c = "7" -> 7 [] c = "8" -> 8 [] c = "9" -> 9

RECURSIVE DecimalValue(_)
DecimalValue(s) ==
  IF s = <<>> THEN 0
  ELSE 10 * DecimalValue(SubSeq(s, 1, Len(s) - 1)) + DigitValue(s[Len(s)])

\* the character class \w of a JavaScript regular expression
WordChar(c) == c \in Range(UpperCase) \cup Range(LowerCase) \cup Digits \cup {"_"}

LowerChar(c) ==
  IF c \in Range(UpperCase)
    THEN LowerCase[CHOOSE i \in DOMAIN UpperCase : UpperCase[i] = c]
    ELSE c

\* String.prototype.toLowerCase
ToLowerCase(s) == [i \in DOMAIN s |-> LowerChar(s[i])]

\* String.prototype.trim (the only white space of the model is " ")
Trim(s) ==
  LET inked == {i \in DOMAIN s : s[i] # " "}
  IN  IF inked = {} THEN <<>>
      ELSE LET lo == CHOOSE i \in inked : \A j \in inked : i <= j
               hi == CHOOSE i \in inked : \A j \in inked : j <= i
           IN  SubSeq(s, lo, hi)

\* startsWith as it would be with a case-insensitive comparison
StartsWith_anyCase(s, p) ==
  Len(s) >= Len(p) /\ ToLowerCase(SubSeq(s, 1, Len(p))) = ToLowerCase(p)

\* String.prototype.startsWith
StartsWith(s, p) == Len(s) >= Len(p) /\ SubSeq(s, 1, Len(p)) = p

\* split(sep)[1] as it would be if empty pieces were skipped: the first
\* non-empty piece after the first separator
SplitSecond_skipEmpty(s, sep) ==
  LET seps  == {i \in DOMAIN s : s[i] = sep}
      first == CHOOSE i \in seps : \A j \in seps : i <= j
      inked == {i \in DOMAIN s : i > first /\ s[i] # sep}
      start == CHOOSE i \in inked : \A j \in inked : i <= j
      later == {i \in seps : i > start}
      stop  == IF later = {} THEN Len(s) + 1
               ELSE CHOOSE i \in later : \A j \in later : i <= j
  IN  IF seps = {} THEN [present |-> FALSE, s |-> <<>>]
      ELSE IF inked = {} THEN [present |-> TRUE, s |-> <<>>]
      ELSE [present |-> TRUE, s |-> SubSeq(s, start, stop - 1)]

\* s.split(sep)[1] for a one-character separator: the text between the first
\* and the second separator; undefined (here absent) when s has no separator
SplitSecond(s, sep) ==
  LET seps == {i \in DOMAIN s : s[i] = sep}
  IN  IF seps = {} THEN [present |-> FALSE, s |-> <<>>]
      ELSE LET first == CHOOSE i \in seps : \A j \in seps : i <= j
               later == {i \in seps : i > first}
               stop  == IF later = {} THEN Len(s) + 1
                        ELSE CHOOSE i \in later : \A j \in later : i <= j
           IN  [present |-> TRUE, s |-> SubSeq(s, first + 1, stop - 1)]

(***************************************************************************)
(* Concrete texts used as request inputs.                                  *)
(***************************************************************************)
Name_Bob == <<" ", "B", "o", "b", " ">>

Name_BOB == <<"B", "O", "B">>

Name_amy == <<"a", "m", "y">>

Mail_A == <<"A", "@", "x", ".", "c", "o">>

Mail_a_padded == <<" ", "a", "@", "x", ".", "c", "o", " ">>

Mail_b == <<"b", "@", "x", ".", "c", "o">>

Pass_secret == <<"s", "e", "c", "r", "e", "t">>

Pass_Secret == <<"S", "e", "c", "r", "e", "t">>

Pass_short == <<"a", "b", "c">>

\* two passwords longer than the bytes bcrypt reads, equal up to their last
\* character
Pass_long_a == [i \in 1..73 |-> "a"]

Pass_long_b == [i \in 1..73 |-> IF i = 73 THEN "b" ELSE "a"]

Bearer_ == <<"B", "e", "a", "r", "e", "r", " ">>

bearer_ == <<"b", "e", "a", "r", "e", "r", " ">>

(***************************************************************************)
(* User schema (models/user.model.js): setters and validators.             *)
(***************************************************************************)
UsernameMinLength == 3

UsernameMaxLength == 30

PasswordMinLength == 6

TldMinLength == 2

TldMaxLength == 4

SaltRounds == 10

\* the setters as they would be without trim: true
SchemaSetter_noTrim(s) == ToLowerCase(s)

\* lowercase: true, trim: true on username and email
SchemaSetter(s) == Trim(ToLowerCase(s))

\* match: /^[\w-.]+@([\w-]+\.)+[\w-]{2,4}$/
EmailMatches(s) ==
  LET ats == {i \in DOMAIN s : s[i] = "@"}
  IN  /\ Cardinality(ats) = 1
      /\ LET at   == CHOOSE i \in ats : TRUE
             dots == {i \in (at + 1)..Len(s) : s[i] = "."}
         IN  /\ at > 1
             /\ \A i \in 1..(at - 1) : WordChar(s[i]) \/ s[i] \in {"-", "."}
             /\ \A i \in (at + 1)..Len(s) : WordChar(s[i]) \/ s[i] \in {"-", "."}
             /\ dots # {}
             /\ at + 1 \notin dots
             /\ \A i \in dots : i + 1 \notin dots
             /\ LET lastDot == CHOOSE i \in dots : \A j \in dots : j <= i
                IN  Len(s) - lastDot \in TldMinLength..TldMaxLength

\* the document validators, run on the values after the setters
ValidUserDoc(username, email, password) ==
  /\ username # <<>>
  /\ Len(username) >= UsernameMinLength
  /\ Len(username) <= UsernameMaxLength
  /\ email # <<>>
  /\ EmailMatches(email)
  /\ password # <<>>
  /\ Len(password) >= PasswordMinLength

(***************************************************************************)
(* Password hasher (bcryptjs).  The password field of a document holds     *)
(* either a plain text or a bcrypt hash; a hash carries its cost and salt, *)
(* and compare recomputes it from the candidate.                           *)
(***************************************************************************)
\* bcrypt keys the cipher with the first 72 bytes of the password
BcryptMaxBytes == 72

NoPassword == [kind |-> "none", rounds |-> 0, salt |-> 0, of |-> <<>>]

PlainText(s) == [kind |-> "plain", rounds |-> 0, salt |-> 0, of |-> s]

\* the bytes of the password that reach the cipher
BcryptKey(password) ==
  IF Len(password) > BcryptMaxBytes THEN SubSeq(password, 1, BcryptMaxBytes)
  ELSE password

\* bcrypt.hash(password, saltRounds) with the salt drawn for this call
BcryptHash(password, rounds, salt) ==
  [kind |-> "bcrypt", rounds |-> rounds, salt |-> salt, of |-> BcryptKey(password)]

\* bcrypt.compare(candidate, hash): it throws "Illegal arguments" when hash
\* is undefined, and answers false when hash is a string that is not a hash
BcryptCompare(candidate, hash) ==
  [error |-> IF hash.kind = "none" THEN "Error" ELSE "",
   match |-> /\ hash.kind = "bcrypt"
             /\ BcryptHash(candidate, hash.rounds, hash.salt) = hash]

DigitChar(d) == <<"0", "1", "2", "3", "4", "5", "6", "7", "8", "9">>[d + 1]

RECURSIVE DecimalText(_)
DecimalText(n) ==
  IF n < 10 THEN <<DigitChar(n)>>
  ELSE DecimalText(n \div 10) \o <<DigitChar(n % 10)>>

\* the cast of a value to the schema type String: a number becomes its
\* decimal text
CastString(v) ==
  IF v.t = "string" THEN v.s
  ELSE IF v.t = "number"
    THEN IF v.n < 0 THEN <<"-">> \o DecimalText(0 - v.n) ELSE DecimalText(v.n)
  ELSE <<>>

\* this.password as the string handed to bcrypt.hash: the plaintext of a
\* field that was assigned, the encoded hash of a field loaded from the store
PasswordText(pw) ==
  IF pw.kind = "bcrypt"
    THEN <<"$", "2", "b", "$">> \o DecimalText(pw.rounds) \o <<"$">>
           \o DecimalText(pw.salt) \o pw.of
  ELSE pw.of

\* the hook as it would be if it returned early for new documents
PreSave_skipNew(doc, isNew, passwordModified, salt) ==
  IF ~passwordModified \/ isNew THEN doc
  ELSE [doc EXCEPT !.password = BcryptHash(PasswordText(doc.password), SaltRounds, salt)]

\* the hook as it would be without its early return
PreSave_always(doc, isNew, passwordModified, salt) ==
  [doc EXCEPT !.password = BcryptHash(PasswordText(doc.password), SaltRounds, salt)]

\* userSchema.pre("save"): a new or password-modified document gets its
\* password replaced by its hash
PreSave(doc, isNew, passwordModified, salt) ==
  IF ~passwordModified /\ ~isNew THEN doc
  ELSE [doc EXCEPT !.password = BcryptHash(PasswordText(doc.password), SaltRounds, salt)]

\* userSchema.methods.comparePassword
ComparePassword(doc, candidatePassword) == BcryptCompare(candidatePassword, doc.password)

\* comparePassword resolves to true
Verifies(doc, candidatePassword) ==
  /\ ComparePassword(doc, candidatePassword).error = ""
  /\ ComparePassword(doc, candidatePassword).match

(***************************************************************************)
(* Credential store: the User collection with its unique indexes.          *)
(***************************************************************************)
NoRecord == [id |-> 0, username |-> <<>>, email |-> <<>>, password |-> NoPassword]

\* default projection: password has select: false
WithoutPassword(rec) == [rec EXCEPT !.password = NoPassword]

\* User.findOne({ email: q }): the filter is cast through the schema setters
User_findOne(store, q) ==
  LET hits == {u \in store : u.email = SchemaSetter(q)}
  IN  IF hits = {} THEN NoRecord ELSE WithoutPassword(CHOOSE u \in hits : TRUE)

\* the lookup as it would be if the filter were compared as submitted
User_findOneWithPassword_exact(store, q) ==
  LET hits == {u \in store : u.email = q}
  IN  IF hits = {} THEN NoRecord ELSE CHOOSE u \in hits : TRUE

\* User.findOne({ email: q }).select('+password')
User_findOneWithPassword(store, q) ==
  LET hits == {u \in store : u.email = SchemaSetter(q)}
  IN  IF hits = {} THEN NoRecord ELSE CHOOSE u \in hits : TRUE

\* findById as it would be if the password were part of the projection
User_findById_withPassword(store, id) ==
  LET hits == {u \in store : u.id = id}
  IN  IF hits = {} THEN NoRecord ELSE CHOOSE u \in hits : TRUE

\* findById as it would be if it ignored the id
User_findById_any(store, id) ==
  IF store = {} THEN NoRecord
  ELSE WithoutPassword(CHOOSE u \in store : \A o \in store : o.id >= u.id)

\* User.findById(id)
User_findById(store, id) ==
  LET hits == {u \in store : u.id = id}
  IN  IF hits = {} THEN NoRecord ELSE WithoutPassword(CHOOSE u \in hits : TRUE)

\* the indexes as they would be with unique: true on email only
DuplicateKey_emailOnly(store, username, email) ==
  \E u \in store : u.email = email

\* unique: true on username and on email
DuplicateKey(store, username, email) ==
  \E u \in store : u.username = username \/ u.email = email

\* User.create({ username, password, email }): setters, validators, the
\* pre-save hook, then the insert under the unique indexes
User_create(store, username, email, password, id, salt) ==
  LET uname == SchemaSetter(username)
      mail  == SchemaSetter(email)
      doc   == [id |-> id, username |-> uname, email |-> mail,
                password |-> PlainText(password)]
      saved == PreSave(doc, TRUE, TRUE, salt)
  IN  IF ~ValidUserDoc(uname, mail, password)
        THEN [error |-> "ValidationError", store |-> store, doc |-> NoRecord]
      ELSE IF DuplicateKey(store, uname, mail)
        THEN [error |-> "MongoServerError", store |-> store, doc |-> NoRecord]
      ELSE [error |-> "", store |-> store \cup {saved}, doc |-> saved]

\* save() of the record with this id, loaded with its password, after the
\* password was assigned (a string) or left alone (undefined): validation,
\* the pre-save hook, then the write
User_save(store, id, password, salt) ==
  LET doc      == CHOOSE u \in store : u.id = id
      modified == password.t = "string"
      edited   == IF modified THEN [doc EXCEPT !.password = PlainText(password.s)]
                  ELSE doc
      saved    == PreSave(edited, FALSE, modified, salt)
  IN  IF modified /\ Len(password.s) < PasswordMinLength
        THEN [error |-> "ValidationError", store |-> store, doc |-> NoRecord]
      ELSE [error |-> "", store |-> (store \ {doc}) \cup {saved}, doc |-> saved]

(***************************************************************************)
(* Token issuer and verifier (jsonwebtoken).  A token is its payload and   *)
(* the key that signed it; times are in seconds.                           *)
(***************************************************************************)
JWT_SECRET == "server-secret-key"

WrongSecret == "wrong-secret-key"

\* '7d' in seconds
DefaultExpiresIn == 604800

\* process.env.JWT_EXPIRES_IN as the process was started with it: a time
\* span, or the empty text when it is not set
VARIABLE JWT_EXPIRES_IN

\* the environments the server is started in
ExpiresInSettings == {<<>>, <<"1", "h">>}

\* the seconds of a time span written as a number and a unit ('7d', '1h')
Timespan(text) ==
  LET unit == text[Len(text)]
  IN  DecimalValue(SubSeq(text, 1, Len(text) - 1))
        * (CASE unit = "s" -> 1 [] unit = "m" -> 60 [] unit = "h" -> 3600
             [] unit = "d" -> 86400)

\* process.env.JWT_EXPIRES_IN || '7d'
ExpiresIn == IF JWT_EXPIRES_IN = <<>> THEN <<"7", "d">> ELSE JWT_EXPIRES_IN

NoToken == [id |-> 0, iat |-> 0, exp |-> 0, sig |-> ""]

\* jwt.sign({ id }, secret, { expiresIn }) at time now
JwtSign(id, secret, expiresIn, now_) ==
  [id |-> id, iat |-> now_, exp |-> now_ + expiresIn, sig |-> secret]

\* generateToken as it would be if it signed another id
generateToken_otherId(userId, now_) ==
  JwtSign(userId + 1, JWT_SECRET, Timespan(ExpiresIn), now_)

\* generateToken as it would be if it ignored the environment and signed
\* for one hour
generateToken_oneHour(userId, now_) ==
  JwtSign(userId, JWT_SECRET, Timespan(<<"1", "h">>), now_)

\* generateToken(userId)
generateToken(userId, now_) == JwtSign(userId, JWT_SECRET, Timespan(ExpiresIn), now_)

\* An Authorization header: its text, where the character "$" stands for
\* the compact serialisation of the token carried in jwt
NoHeader == [present |-> FALSE, text |-> <<>>, jwt |-> NoToken]

Header(text, jwt) == [present |-> TRUE, text |-> text, jwt |-> jwt]

\* jwt.verify as it would be with ignoreExpiration
JwtVerify_noExpiry(piece, jwt, secret, now_) ==
  IF ~piece.present \/ piece.s # <<"$">> \/ jwt.sig # secret
    THEN [error |-> "JsonWebTokenError", id |-> 0]
    ELSE [error |-> "", id |-> jwt.id]

\* jwt.verify(token, secret) at time now, token being split(' ')[1]
JwtVerify(piece, jwt, secret, now_) ==
  IF ~piece.present \/ piece.s = <<>>
    THEN [error |-> "JsonWebTokenError", id |-> 0]
  ELSE IF piece.s # <<"$">>
    THEN [error |-> "JsonWebTokenError", id |-> 0]
  ELSE IF jwt.sig # secret
    THEN [error |-> "JsonWebTokenError", id |-> 0]
  ELSE IF now_ >= jwt.exp
    THEN [error |-> "TokenExpiredError", id |-> 0]
  ELSE [error |-> "", id |-> jwt.id]

(***************************************************************************)
(* Auth gate (middlewares/auth.middleware.js).                             *)
(***************************************************************************)
GateResult(status, message, next, user, lookups) ==
  [status |-> status, message |-> message, next |-> next, user |-> user,
   lookups |-> lookups, error |-> IF status = 500 THEN "StoreError" ELSE ""]

\* verifyToken as it would be without the check of the looked-up user
verifyToken_noUserCheck(header, store, storeUp, now_) ==
  IF ~header.present \/ header.text = <<>> \/ ~StartsWith(header.text, Bearer_)
    THEN GateResult(401, "Access token required", FALSE, NoRecord, 0)
  ELSE
    LET token   == SplitSecond(header.text, " ")
        decoded == JwtVerify(token, header.jwt, JWT_SECRET, now_)
        user    == User_findById(store, decoded.id)
    IN  IF decoded.error = "TokenExpiredError"
          THEN GateResult(401, "Token expired", FALSE, NoRecord, 0)
        ELSE IF decoded.error = "JsonWebTokenError"
          THEN GateResult(401, "Invalid token", FALSE, NoRecord, 0)
        ELSE IF ~storeUp
          THEN GateResult(500, "Internal server error", FALSE, NoRecord, 1)
        ELSE GateResult(0, "", TRUE, user, 1)

\* verifyToken as it would be if a missing subject were answered 404
verifyToken_notFound404(header, store, storeUp, now_) ==
  IF ~header.present \/ header.text = <<>> \/ ~StartsWith(header.text, Bearer_)
    THEN GateResult(401, "Access token required", FALSE, NoRecord, 0)
  ELSE
    LET token   == SplitSecond(header.text, " ")
        decoded == JwtVerify(token, header.jwt, JWT_SECRET, now_)
        user    == User_findById(store, decoded.id)
    IN  IF decoded.error = "TokenExpiredError"
          THEN GateResult(401, "Token expired", FALSE, NoRecord, 0)
        ELSE IF decoded.error = "JsonWebTokenError"
          THEN GateResult(401, "Invalid token", FALSE, NoRecord, 0)
        ELSE IF ~storeUp
          THEN GateResult(500, "Internal server error", FALSE, NoRecord, 1)
        ELSE IF user = NoRecord
          THEN GateResult(404, "User not found", FALSE, NoRecord, 1)
        ELSE GateResult(0, "", TRUE, user, 1)

\* verifyToken as it would be if a failing lookup let the request through
verifyToken_failOpen(header, store, storeUp, now_) ==
  IF ~header.present \/ header.text = <<>> \/ ~StartsWith(header.text, Bearer_)
    THEN GateResult(401, "Access token required", FALSE, NoRecord, 0)
  ELSE
    LET token   == SplitSecond(header.text, " ")
        decoded == JwtVerify(token, header.jwt, JWT_SECRET, now_)
        user    == User_findById(store, decoded.id)
    IN  IF decoded.error = "TokenExpiredError"
          THEN GateResult(401, "Token expired", FALSE, NoRecord, 0)
        ELSE IF decoded.error = "JsonWebTokenError"
          THEN GateResult(401, "Invalid token", FALSE, NoRecord, 0)
        ELSE IF ~storeUp
          THEN GateResult(0, "", TRUE, NoRecord, 1)
        ELSE IF user = NoRecord
          THEN GateResult(401, "User not found", FALSE, NoRecord, 1)
        ELSE GateResult(0, "", TRUE, user, 1)

\* verifyToken as it would be if it decoded the token and attached its user
\* before verifying it
verifyToken_attachesBeforeVerify(header, store, storeUp, now_) ==
  IF ~header.present \/ header.text = <<>> \/ ~StartsWith(header.text, Bearer_)
    THEN GateResult(401, "Access token required", FALSE, NoRecord, 0)
  ELSE
    LET token   == SplitSecond(header.text, " ")
        decoded == JwtVerify(token, header.jwt, JWT_SECRET, now_)
        user    == User_findById(store, decoded.id)
    IN  IF decoded.error = "TokenExpiredError"
          THEN GateResult(401, "Token expired", FALSE,
                          User_findById(store, header.jwt.id), 1)
        ELSE IF decoded.error = "JsonWebTokenError"
          THEN GateResult(401, "Invalid token", FALSE, NoRecord, 0)
        ELSE IF ~storeUp
          THEN GateResult(500, "Internal server error", FALSE, NoRecord, 1)
        ELSE IF user = NoRecord
          THEN GateResult(401, "User not found", FALSE, NoRecord, 1)
        ELSE GateResult(0, "", TRUE, user, 1)

\* verifyToken(req, res, next): the response it sends, or the call of next
\* with req.user; storeUp tells whether the store answers the lookup
verifyToken(header, store, storeUp, now_) ==
  IF ~header.present \/ header.text = <<>> \/ ~StartsWith(header.text, Bearer_)
    THEN GateResult(401, "Access token required", FALSE, NoRecord, 0)
  ELSE
    LET token   == SplitSecond(header.text, " ")
        decoded == JwtVerify(token, header.jwt, JWT_SECRET, now_)
        user    == User_findById(store, decoded.id)
    IN  IF decoded.error = "TokenExpiredError"
          THEN GateResult(401, "Token expired", FALSE, NoRecord, 0)
        ELSE IF decoded.error = "JsonWebTokenError"
          THEN GateResult(401, "Invalid token", FALSE, NoRecord, 0)
        ELSE IF ~storeUp
          THEN GateResult(500, "Internal server error", FALSE, NoRecord, 1)
        ELSE IF user = NoRecord
          THEN GateResult(401, "User not found", FALSE, NoRecord, 1)
        ELSE GateResult(0, "", TRUE, user, 1)

(***************************************************************************)
(* Routing (routes/user.route.js, routes/post.route.js): the chain of      *)
(* middleware and handler registered for each route.                       *)
(***************************************************************************)
UserRoutes ==
  [register |-> <<"registerUser">>,
   login    |-> <<"loginUser">>,
   logout   |-> <<"logoutUser">>,
   profile  |-> <<"verifyToken", "getProfile">>]

\* the post routes as they would be with the listing left public
PostRoutes_publicList ==
  [create   |-> <<"verifyToken", "createPost">>,
   getPosts |-> <<"getAllPosts">>,
   getPost  |-> <<"verifyToken", "getPostById">>,
   update   |-> <<"verifyToken", "updatePost">>,
   delete   |-> <<"verifyToken", "deletePost">>]

\* the post routes as they would be with the two reads left public
PostRoutes_publicReads ==
  [create   |-> <<"verifyToken", "createPost">>,
   getPosts |-> <<"getAllPosts">>,
   getPost  |-> <<"getPostById">>,
   update   |-> <<"verifyToken", "updatePost">>,
   delete   |-> <<"verifyToken", "deletePost">>]

PostRoutes ==
  [create   |-> <<"verifyToken", "createPost">>,
   getPosts |-> <<"verifyToken", "getAllPosts">>,
   getPost  |-> <<"verifyToken", "getPostById">>,
   update   |-> <<"verifyToken", "updatePost">>,
   delete   |-> <<"verifyToken", "deletePost">>]

Chain(route) ==
  IF route \in DOMAIN UserRoutes THEN UserRoutes[route] ELSE PostRoutes[route]

\* Express runs the chain in order; a middleware that does not call next
\* ends the request.  The outcome of everything before the final handler.
Gate(route, header, store, storeUp, now_) ==
  IF Head(Chain(route)) = "verifyToken"
    THEN verifyToken(header, store, storeUp, now_)
    ELSE GateResult(0, "", TRUE, NoRecord, 0)

\* the handlers invoked for a request, given whether the gate called next
Ran(route, next) == IF next THEN Chain(route) ELSE <<Head(Chain(route))>>

(***************************************************************************)
(* Post schema and collection (models/post.model.js).                      *)
(***************************************************************************)
NameMaxLength == 100

AgeMin == 0

AgeMax == 150

\* a createdAt: the second of the clock and the millisecond within it
Date(s, ms) == [s |-> s, ms |-> ms]

NoDate == Date(0, 0)

\* a is later than b
Later(a, b) == a.s > b.s \/ (a.s = b.s /\ a.ms > b.ms)

NoPost == [id |-> 0, name |-> <<>>, description |-> <<>>, age |-> 0, createdAt |-> NoDate]

\* a route parameter :id, castable to an ObjectId or not
PostId(n) == [castable |-> TRUE, oid |-> n]

BadId == [castable |-> FALSE, oid |-> 0]

\* the document validators of the Post schema, run after trim
ValidPostDoc(name, description, age) ==
  /\ name # <<>>
  /\ Len(name) <= NameMaxLength
  /\ description # <<>>
  /\ age >= AgeMin
  /\ age <= AgeMax

\* Post.create({ name, description, age }): createdAt is the time of the
\* call (timestamps: true), id is given by the insert
Post_create(store, name, description, age, id, createdAt) ==
  LET doc == [id |-> id, name |-> Trim(name), description |-> Trim(description),
              age |-> age, createdAt |-> createdAt]
  IN  IF ~ValidPostDoc(doc.name, doc.description, doc.age)
        THEN [error |-> "ValidationError", store |-> store, doc |-> NoPost]
        ELSE [error |-> "", store |-> store \cup {doc}, doc |-> doc]

\* Post.findById(id)
Post_findById(store, id) ==
  LET hits == {q \in store : q.id = id.oid}
  IN  IF ~id.castable THEN [error |-> "CastError", doc |-> NoPost]
      ELSE IF hits = {} THEN [error |-> "", doc |-> NoPost]
      ELSE [error |-> "", doc |-> CHOOSE q \in hits : TRUE]

\* findByIdAndDelete as it would be if it returned the document and left it
\* in the collection
Post_findByIdAndDelete_keeps(store, id) ==
  LET found == Post_findById(store, id)
  IN  [error |-> found.error, doc |-> found.doc, store |-> store]

\* Post.findByIdAndDelete(id)
Post_findByIdAndDelete(store, id) ==
  LET found == Post_findById(store, id)
  IN  [error |-> found.error, doc |-> found.doc, store |-> store \ {found.doc}]

\* Post.findByIdAndUpdate(id, { name, description, age }, { new: true,
\* runValidators: true }): undefined keys are left out of the update, the
\* others are cast, validated and set
Post_findByIdAndUpdate(store, id, name, description, age) ==
  LET found == Post_findById(store, id)
      old   == found.doc
      doc   == [id          |-> old.id,
                name        |-> IF name.t = "undefined" THEN old.name
                                ELSE Trim(CastString(name)),
                description |-> IF description.t = "undefined" THEN old.description
                                ELSE Trim(CastString(description)),
                age         |-> IF age.t = "undefined" THEN old.age ELSE age.n,
                createdAt   |-> old.createdAt]
      valid == /\ name.t = "undefined" \/ (doc.name # <<>> /\ Len(doc.name) <= NameMaxLength)
               /\ description.t = "undefined" \/ doc.description # <<>>
               /\ age.t = "undefined" \/ (doc.age >= AgeMin /\ doc.age <= AgeMax)
  IN  IF found.error # "" THEN [error |-> found.error, doc |-> NoPost, store |-> store]
      ELSE IF ~valid THEN [error |-> "ValidationError", doc |-> NoPost, store |-> store]
      ELSE IF old = NoPost THEN [error |-> "", doc |-> NoPost, store |-> store]
      ELSE [error |-> "", doc |-> doc, store |-> (store \ {old}) \cup {doc}]

\* the orders sort("-createdAt") can return the posts in: a later createdAt
\* first, the posts of one createdAt in any order
RECURSIVE NewestFirst(_)
NewestFirst(store) ==
  IF store = {} THEN {<<>>}
  ELSE UNION { { <<newest>> \o rest : rest \in NewestFirst(store \ {newest}) } :
                 newest \in {q \in store : \A o \in store : ~Later(o.createdAt, q.createdAt)} }

\* s contains sub as a run of consecutive characters
Contains(s, sub) ==
  \E i \in 0..(Len(s) - Len(sub)) : SubSeq(s, i + 1, i + Len(sub)) = sub

\* the filter of getAllPosts: every post when q is absent or empty, else the
\* posts whose name or description matches new RegExp(q, "i"), for a q of
\* letters and digits
PostFilter(q) ==
  IF Falsy(q) THEN [all |-> TRUE, pattern |-> <<>>]
  ELSE [all |-> FALSE, pattern |-> ToLowerCase(q.s)]

Matching(store, filter) ==
  { d \in store : \/ filter.all
                  \/ Contains(ToLowerCase(d.name), filter.pattern)
                  \/ Contains(ToLowerCase(d.description), filter.pattern) }

\* Post.find(filter).sort(sort).skip(skip).limit(limit): the pages it can
\* return, one for each order of the sort
Post_find(store, filter, skip, limit) ==
  { LET lo == skip + 1
        hi == IF skip + limit < Len(all) THEN skip + limit ELSE Len(all)
    IN  IF lo > hi THEN <<>> ELSE SubSeq(all, lo, hi) :
      all \in NewestFirst(Matching(store, filter)) }

\* Post.countDocuments(filter)
Post_countDocuments(store, filter) == Cardinality(Matching(store, filter))

(***************************************************************************)
(* Request inputs.                                                         *)
(***************************************************************************)
Body(username, email, password) ==
  [username |-> username, email |-> email, password |-> password]

NoBody == Body(Undefined, Undefined, Undefined)

\* the body of a post request; keys tells whether the body has any key
PostBody(name, description, age) ==
  [name |-> name, description |-> description, age |-> age,
   keys |-> ~(name.t = "undefined" /\ description.t = "undefined" /\ age.t = "undefined")]

NoPostBody == PostBody(Undefined, Undefined, Undefined)

\* the body with a key besides name, description and age
WithOtherKey(body) == [body EXCEPT !.keys = TRUE]

\* the query string of GET /getPosts
Query(page, limit, q) == [page |-> page, limit |-> limit, q |-> q]

NoQuery == Query(Undefined, Undefined, Undefined)

\* everything a request carries besides its Authorization header, and what
\* it met: whether the stores answered the gate's and the handler's calls,
\* and the store call after whose answer the handler replied
Input(body, id, post, query, gateUp, storeUp, step) ==
  [body |-> body, id |-> id, post |-> post, query |-> query,
   gateUp |-> gateUp, storeUp |-> storeUp, step |-> step]

UserInput(body, storeUp, step) ==
  Input(body, BadId, NoPostBody, NoQuery, TRUE, storeUp, step)

GateInput(gateUp) == Input(NoBody, BadId, NoPostBody, NoQuery, gateUp, TRUE, "")

PostInput(id, post, query, gateUp, storeUp) ==
  Input(NoBody, id, post, query, gateUp, storeUp, "")

NoInput == UserInput(NoBody, TRUE, "")

RegisterBodies ==
  { Body(Str(Name_Bob), Str(Mail_A), Str(Pass_secret)),
    Body(Str(Name_amy), Str(Mail_a_padded), Str(Pass_Secret)),
    Body(Str(Name_BOB), Str(Mail_b), Str(Pass_secret)),
    Body(Str(Name_amy), Str(Mail_b), Str(Pass_Secret)),
    Body(Str(Name_amy), Str(Mail_b), Str(Pass_short)),
    Body(Str(Name_amy), Undefined, Str(Pass_secret)),
    Body(Undefined, Str(Mail_A), Str(Pass_secret)),
    Body(Str(Name_amy), Str(Mail_b), Str(<<>>)),
    Body(Str(Name_amy), Num(5), Str(Pass_secret)),
    Body(Str(Name_amy), Str(Mail_b), Str(Pass_long_a)),
    Body(Str(Name_amy), Str(Mail_b), Num(123456)),
    Body(Num(5), Str(Mail_b), Str(Pass_secret)) }

LoginBodies ==
  { Body(Undefined, Str(m), Str(p)) :
      m \in {Mail_A, Mail_a_padded, Mail_b}, p \in {Pass_secret, Pass_Secret} }
  \cup { Body(Undefined, Str(Mail_A), Undefined), Body(Undefined, Str(<<>>), Str(Pass_secret)),
         Body(Undefined, Str(Mail_b), Str(Pass_long_b)), Body(Undefined, Str(Mail_A), Num(5)) }

LogoutBodies ==
  { Body(Undefined, Str(Mail_A), Undefined), Body(Undefined, Str(Mail_b), Undefined),
    Body(Undefined, Str(<<>>), Undefined), NoBody }

\* headers built around a token
HeadersWith(tok) ==
  { Header(<<"$">>, tok),
    Header(bearer_ \o <<"$">>, tok),
    Header(Bearer_ \o <<"$">>, tok),
    Header(Bearer_ \o <<"$", " ", "x">>, tok),
    Header(Bearer_ \o <<" ", "$">>, tok) }

\* headers that carry no token
HeadersWithout ==
  { NoHeader,
    Header(<<>>, NoToken),
    Header(Bearer_, NoToken),
    Header(Bearer_ \o <<"x">>, NoToken) }

\* instants at which the clock is observed
Instants == {0, DefaultExpiresIn - 1, DefaultExpiresIn, DefaultExpiresIn + 1}

(***************************************************************************)
(* State.                                                                  *)
(***************************************************************************)
VARIABLES
  users,      \* the User collection
  nextId,     \* the next _id the User collection assigns
  posts,      \* the Post collection
  nextPostId, \* the next _id the Post collection assigns
  now,        \* the clock, in seconds
  wallet,     \* the token the client kept, if any (a set of at most one)
  inflight,   \* bag of the requests suspended at an await
  last        \* the request completed by the last step and what it observed

vars == <<users, nextId, posts, nextPostId, now, wallet, inflight, last, JWT_EXPIRES_IN>>

NoUserInfo == [id |-> 0, email |-> <<>>, username |-> <<>>]

UserInfo(doc) == [id |-> doc.id, email |-> doc.email, username |-> doc.username]

NoMeta == [total |-> 0, count |-> 0, page |-> 0, pages |-> 0, limit |-> 0]

\* what a handler sends, and the collection as it leaves it
Reply(status, message, user, token, error, store) ==
  [status |-> status, message |-> message, user |-> user, token |-> token,
   post |-> NoPost, data |-> <<>>, meta |-> NoMeta, error |-> error, store |-> store]

PostReply(status, message, post, error, store) ==
  [status |-> status, message |-> message, user |-> NoUserInfo, token |-> NoToken,
   post |-> post, data |-> <<>>, meta |-> NoMeta, error |-> error, store |-> store]

ListReply(data, meta, store) ==
  [status |-> 200, message |-> "", user |-> NoUserInfo, token |-> NoToken,
   post |-> NoPost, data |-> data, meta |-> meta, error |-> "", store |-> store]

\* a request suspended at an await: the store call it waits for (stage),
\* the clock at which jwt.verify ran (at), the document the chain holds
\* (req.user, or the user found or created) and the answers Promise.all has
\* gathered (data, meta); createdAt is that of the document a createPost
\* passed to Post.create
Suspended(route, stage, header, input, at, user) ==
  [route |-> route, stage |-> stage, header |-> header, input |-> input,
   at |-> at, user |-> user, data |-> <<>>, meta |-> NoMeta, createdAt |-> NoDate]

\* a registerUser suspended between User.findOne and User.create
Registering(header, body) ==
  Suspended("register", "create", header, UserInput(body, TRUE, ""), 0, NoRecord)

NoRequest ==
  [route |-> "none", header |-> NoHeader, input |-> NoInput, ran |-> <<>>,
   status |-> 0, message |-> "", user |-> NoUserInfo, token |-> NoToken,
   post |-> NoPost, data |-> <<>>, meta |-> NoMeta,
   reqUser |-> NoRecord, lookups |-> 0, error |-> ""]

\* a request ended by the gate
Rejected(route, header, input, gate) ==
  [NoRequest EXCEPT !.route = route, !.header = header, !.input = input,
                    !.ran = Ran(route, FALSE), !.status = gate.status,
                    !.message = gate.message, !.reqUser = gate.user,
                    !.lookups = gate.lookups, !.error = gate.error]

\* a request answered by the final handler of its route
Answered(route, header, input, gate, r) ==
  [route |-> route, header |-> header, input |-> input, ran |-> Ran(route, TRUE),
   status |-> r.status, message |-> r.message, user |-> r.user, token |-> r.token,
   post |-> r.post, data |-> r.data, meta |-> r.meta,
   reqUser |-> gate.user, lookups |-> gate.lookups, error |-> r.error]

\* the outcome of a request to route whose final handler would reply r; a
\* store that is not called is recorded as answering
Outcome(route, header, input, gate, r) ==
  IF gate.next
    THEN Answered(route, header,
                  [input EXCEPT !.gateUp = @ \/ gate.lookups = 0], gate, r)
    ELSE Rejected(route, header,
                  [input EXCEPT !.gateUp = @ \/ gate.lookups = 0, !.storeUp = TRUE], gate)

\* tokens a client can present: the one it kept, and forgeries signed with
\* a key of its own for the ids of the store, unexpired or expired
Presentable ==
  wallet \cup {JwtSign(u.id, WrongSecret, e, now) : u \in users, e \in {DefaultExpiresIn, -1}}

Headers == HeadersWithout \cup UNION {HeadersWith(tok) : tok \in Presentable}

\* the client keeps a received token or not
Pocket(tok) == {wallet, {tok}}

Init ==
  /\ users = {}
  /\ nextId = 1
  /\ posts = {}
  /\ nextPostId = 1
  /\ now = 0
  /\ wallet = {}
  /\ inflight = EmptyBag
  /\ last = NoRequest
  /\ JWT_EXPIRES_IN \in ExpiresInSettings

(***************************************************************************)
(* User controllers (controllers/user.controller.js).                      *)
(***************************************************************************)
\* the catch block as it would be if it only logged the error
InternalError_noResponse(error, store) ==
  Reply(0, "", NoUserInfo, NoToken, error, store)

InternalError(error, store) ==
  Reply(500, "Internal server error", NoUserInfo, NoToken, error, store)

\* a handler calls the store and awaits the answer
Awaits(store) == Reply(0, "", NoUserInfo, NoToken, "", store)

\* registerUser as it would be if it looked the email up before checking
\* that the fields are present
registerUser_start_lookupFirst(body, store) ==
  IF body.email.t # "string" THEN InternalError("TypeError", store)
  ELSE Awaits(store)

\* registerUser before its first await: the reply it sends there, or status
\* 0 when it calls User.findOne
registerUser_start(body, store) ==
  IF Falsy(body.username) \/ Falsy(body.password) \/ Falsy(body.email)
    THEN Reply(400, "All fields are required", NoUserInfo, NoToken, "", store)
  ELSE IF body.email.t # "string" THEN InternalError("TypeError", store)
  ELSE Awaits(store)

\* registerUser up to the answer of User.findOne: the reply it sends there,
\* or status 0 when it goes on to User.create; the argument of User.create
\* is built in this run
registerUser_find(body, store, storeUp) ==
  IF registerUser_start(body, store).status # 0 THEN registerUser_start(body, store)
  ELSE IF ~storeUp THEN InternalError("StoreError", store)
  ELSE IF User_findOne(store, ToLowerCase(body.email.s)) # NoRecord
    THEN Reply(409, "Email already in use", NoUserInfo, NoToken, "", store)
  ELSE IF body.username.t # "string" THEN InternalError("TypeError", store)
  ELSE Awaits(store)

\* registerUser as it would be if the token were generated before the
\* create and sent whatever its outcome
registerUser_create_tokenFirst(body, store, storeUp, id, salt, now_) ==
  IF ~storeUp THEN InternalError("StoreError", store)
  ELSE
    LET made == User_create(store, Trim(ToLowerCase(body.username.s)),
                            Trim(ToLowerCase(body.email.s)), CastString(body.password),
                            id, salt)
    IN  IF made.error # ""
          THEN Reply(500, "Internal server error", NoUserInfo,
                     generateToken(id, now_), made.error, store)
        ELSE Reply(201, "User registered successfully", UserInfo(made.doc),
                   generateToken(made.doc.id, now_), "", made.store)

\* registerUser from the answer of User.create to its reply
registerUser_create(body, store, storeUp, id, salt, now_) ==
  IF ~storeUp THEN InternalError("StoreError", store)
  ELSE
    LET made == User_create(store, Trim(ToLowerCase(body.username.s)),
                            Trim(ToLowerCase(body.email.s)), CastString(body.password),
                            id, salt)
    IN  IF made.error # "" THEN InternalError(made.error, store)
        ELSE Reply(201, "User registered successfully", UserInfo(made.doc),
                   generateToken(made.doc.id, now_), "", made.store)

\* loginUser as it would be if an unknown email had an answer of its own
loginUser_notFound404(body, store, storeUp, now_) ==
  IF Falsy(body.email) \/ Falsy(body.password)
    THEN Reply(400, "Email and password are required", NoUserInfo, NoToken, "", store)
  ELSE IF body.email.t # "string" THEN InternalError("TypeError", store)
  ELSE IF ~storeUp THEN InternalError("StoreError", store)
  ELSE
    LET user == User_findOneWithPassword(store, ToLowerCase(body.email.s))
    IN  IF user = NoRecord
          THEN Reply(404, "User not found", NoUserInfo, NoToken, "", store)
        ELSE IF body.password.t # "string" THEN InternalError("Error", store)
        ELSE IF ComparePassword(user, body.password.s).error # ""
          THEN InternalError("Error", store)
        ELSE IF ~ComparePassword(user, body.password.s).match
          THEN Reply(401, "Invalid credentials", NoUserInfo, NoToken, "", store)
        ELSE Reply(200, "Login successful", UserInfo(user),
                   generateToken(user.id, now_), "", store)

\* loginUser before its first await: the reply it sends there, or status 0
\* when it calls User.findOne
loginUser_start(body, store) ==
  IF Falsy(body.email) \/ Falsy(body.password)
    THEN Reply(400, "Email and password are required", NoUserInfo, NoToken, "", store)
  ELSE IF body.email.t # "string" THEN InternalError("TypeError", store)
  ELSE Awaits(store)

\* loginUser
loginUser(body, store, storeUp, now_) ==
  IF Falsy(body.email) \/ Falsy(body.password)
    THEN Reply(400, "Email and password are required", NoUserInfo, NoToken, "", store)
  ELSE IF body.email.t # "string" THEN InternalError("TypeError", store)
  ELSE IF ~storeUp THEN InternalError("StoreError", store)
  ELSE
    LET user == User_findOneWithPassword(store, ToLowerCase(body.email.s))
    IN  IF user = NoRecord
          THEN Reply(401, "Invalid credentials", NoUserInfo, NoToken, "", store)
        ELSE IF body.password.t # "string" THEN InternalError("Error", store)
        ELSE IF ComparePassword(user, body.password.s).error # ""
          THEN InternalError("Error", store)
        ELSE IF ~ComparePassword(user, body.password.s).match
          THEN Reply(401, "Invalid credentials", NoUserInfo, NoToken, "", store)
        ELSE Reply(200, "Login successful", UserInfo(user),
                   generateToken(user.id, now_), "", store)

\* the document loginUser holds when it awaits comparePassword, NoRecord
\* when it replied before
loginUser_findOne(body, store, storeUp) ==
  IF Falsy(body.email) \/ Falsy(body.password) \/ body.email.t # "string" \/ ~storeUp
    THEN NoRecord
  ELSE User_findOneWithPassword(store, ToLowerCase(body.email.s))

\* logoutUser as it would be if it removed the account it looked up
logoutUser_dropsRecord(body, store, storeUp) ==
  IF body.email.t # "string" THEN InternalError("TypeError", store)
  ELSE IF ~storeUp THEN InternalError("StoreError", store)
  ELSE IF User_findOne(store, ToLowerCase(body.email.s)) = NoRecord
    THEN Reply(401, "Invalid credentials", NoUserInfo, NoToken, "", store)
  ELSE Reply(200, "Logout successful", NoUserInfo, NoToken, "",
             {u \in store : u.email # SchemaSetter(ToLowerCase(body.email.s))})

\* logoutUser before its first await: the reply it sends there, or status 0
\* when it calls User.findOne
logoutUser_start(body, store) ==
  IF body.email.t # "string" THEN InternalError("TypeError", store)
  ELSE Awaits(store)

\* logoutUser
logoutUser(body, store, storeUp) ==
  IF body.email.t # "string" THEN InternalError("TypeError", store)
  ELSE IF ~storeUp THEN InternalError("StoreError", store)
  ELSE IF User_findOne(store, ToLowerCase(body.email.s)) = NoRecord
    THEN Reply(401, "Invalid credentials", NoUserInfo, NoToken, "", store)
  ELSE Reply(200, "Logout successful", NoUserInfo, NoToken, "", store)

\* getProfile
getProfile(reqUser, store) ==
  IF reqUser = NoRecord THEN InternalError("TypeError", store)
  ELSE Reply(200, "", UserInfo(reqUser), NoToken, "", store)

(***************************************************************************)
(* Post controllers (controllers/post.controller.js).                      *)
(***************************************************************************)
PageDefault == 1

LimitDefault == 10

LimitCap == 100

\* parseInt(v, 10): leading white space, an optional sign and the longest
\* run of digits; NaN when there is no digit
ParseInt(v) ==
  IF v.t = "number" THEN [nan |-> FALSE, n |-> v.n]
  ELSE IF v.t # "string" THEN [nan |-> TRUE, n |-> 0]
  ELSE
    LET inked  == {i \in DOMAIN v.s : v.s[i] # " "}
        start  == IF inked = {} THEN Len(v.s) + 1
                  ELSE CHOOSE i \in inked : \A j \in inked : i <= j
        signed == start <= Len(v.s) /\ v.s[start] \in {"-", "+"}
        first  == IF signed THEN start + 1 ELSE start
        stops  == {i \in first..Len(v.s) : v.s[i] \notin Digits}
        stop   == IF stops = {} THEN Len(v.s) + 1
                  ELSE CHOOSE i \in stops : \A j \in stops : i <= j
        value  == DecimalValue(SubSeq(v.s, first, stop - 1))
    IN  IF stop <= first THEN [nan |-> TRUE, n |-> 0]
        ELSE [nan |-> FALSE, n |-> IF signed /\ v.s[start] = "-" THEN 0 - value ELSE value]

\* parseInt(v, 10) || d
ParseIntOr(v, d) ==
  LET p == ParseInt(v) IN IF p.nan \/ p.n = 0 THEN d ELSE p.n

Max(a, b) == IF a >= b THEN a ELSE b

Min(a, b) == IF a <= b THEN a ELSE b

\* Math.ceil(a / b) for a >= 0, b > 0
CeilDiv(a, b) == (a + b - 1) \div b

\* createPost
createPost(body, store, storeUp, id, createdAt) ==
  IF Falsy(body.name) \/ Falsy(body.description) \/ body.age.t = "undefined"
    THEN PostReply(400, "All fields are required", NoPost, "", store)
  ELSE IF body.name.t # "string" \/ body.description.t # "string" \/ body.age.t # "number"
    THEN PostReply(400, "Invalid data types", NoPost, "", store)
  ELSE IF ~storeUp THEN PostReply(500, "Internal server error", NoPost, "StoreError", store)
  ELSE
    LET made == Post_create(store, body.name.s, body.description.s, body.age.n, id,
                            createdAt)
    IN  IF made.error # ""
          THEN PostReply(500, "Internal server error", NoPost, made.error, store)
          ELSE PostReply(201, "Post created successfully", made.doc, "", made.store)

\* getAllPosts as it would be without the cap on limit
getAllPosts_noCap(query, store, storeUp) ==
  LET page   == Max(ParseIntOr(IF query.page.t = "undefined" THEN Num(PageDefault)
                               ELSE query.page, PageDefault), 1)
      limit  == Max(ParseIntOr(IF query.limit.t = "undefined" THEN Num(LimitDefault)
                               ELSE query.limit, LimitDefault), 1)
      skip   == (page - 1) * limit
      filter == PostFilter(query.q)
      total  == Post_countDocuments(store, filter)
      pages  == Max(CeilDiv(total, limit), 1)
  IN  IF ~storeUp
        THEN {PostReply(500, "Internal server error", NoPost, "StoreError", store)}
      ELSE { ListReply(found, [total |-> total, count |-> Len(found), page |-> page,
                               pages |-> pages, limit |-> limit], store) :
               found \in Post_find(store, filter, skip, limit) }

\* getAllPosts, for a query without sort and fields: the replies it can
\* send, one for each page Post.find can return
getAllPosts(query, store, storeUp) ==
  LET page   == Max(ParseIntOr(IF query.page.t = "undefined" THEN Num(PageDefault)
                               ELSE query.page, PageDefault), 1)
      limit  == Min(Max(ParseIntOr(IF query.limit.t = "undefined" THEN Num(LimitDefault)
                                   ELSE query.limit, LimitDefault), 1), LimitCap)
      skip   == (page - 1) * limit
      filter == PostFilter(query.q)
      total  == Post_countDocuments(store, filter)
      pages  == Max(CeilDiv(total, limit), 1)
  IN  IF ~storeUp
        THEN {PostReply(500, "Internal server error", NoPost, "StoreError", store)}
      ELSE { ListReply(found, [total |-> total, count |-> Len(found), page |-> page,
                               pages |-> pages, limit |-> limit], store) :
               found \in Post_find(store, filter, skip, limit) }

\* updatePost
updatePost(id, body, store, storeUp) ==
  IF ~body.keys
    THEN PostReply(400, "No data provided for update", NoPost, "", store)
  ELSE IF ~Falsy(body.name) /\ body.name.t # "string"
    THEN PostReply(400, "Invalid data type for name", NoPost, "", store)
  ELSE IF ~Falsy(body.description) /\ body.description.t # "string"
    THEN PostReply(400, "Invalid data type for description", NoPost, "", store)
  ELSE IF body.age.t # "undefined" /\ body.age.t # "number"
    THEN PostReply(400, "Invalid data type for age", NoPost, "", store)
  ELSE IF ~storeUp THEN PostReply(500, "Internal server error", NoPost, "StoreError", store)
  ELSE
    LET done == Post_findByIdAndUpdate(store, id, body.name, body.description, body.age)
    IN  IF done.error # ""
          THEN PostReply(500, "Internal server error", NoPost, done.error, store)
        ELSE IF done.doc = NoPost
          THEN PostReply(404, "Post not found", NoPost, "", store)
        ELSE PostReply(200, "Post updated successfully", done.doc, "", done.store)

\* deletePost
deletePost(id, store, storeUp) ==
  IF ~storeUp THEN PostReply(500, "Internal server error", NoPost, "StoreError", store)
  ELSE
    LET done == Post_findByIdAndDelete(store, id)
    IN  IF done.error # ""
          THEN PostReply(500, "Internal server error", NoPost, done.error, store)
        ELSE IF done.doc = NoPost
          THEN PostReply(404, "Post not found", NoPost, "", store)
        ELSE PostReply(200, "Post deleted successfully", done.doc, "", done.store)

\* getPostById
getPostById(id, store, storeUp) ==
  IF ~storeUp THEN PostReply(500, "Internal server error", NoPost, "StoreError", store)
  ELSE
    LET found == Post_findById(store, id)
    IN  IF found.error # ""
          THEN PostReply(500, "Internal server error", NoPost, found.error, store)
        ELSE IF found.doc = NoPost
          THEN PostReply(404, "Post not found", NoPost, "", store)
        ELSE PostReply(200, "", found.doc, "", store)

(***************************************************************************)
(* Actions: one per step of a request, one per step of the environment.    *)
(* A handler runs from one await to the next in one step, at the instant   *)
(* of the store call it awaited; between two steps of a request other      *)
(* requests and the environment take theirs.  What a step computes once    *)
(* and reads several times is bound with \E over a one-element set.        *)
(***************************************************************************)
Untouched(route) == GateResult(0, "", TRUE, NoRecord, 0)

\* the reply of the last step has been delivered
Quiet == last = NoRequest

\* the requests that are suspended
Waiting == BagToSet(inflight)

\* no reply is being delivered and no request is suspended
Idle == Quiet /\ Waiting = {}

\* the bag without one copy of a request, and with one more
Resumed(e) == inflight (-) SetToBag({e})

Parked(bag, e) == bag (+) SetToBag({e})

\* what verifyToken left on the request when it called next
GateOf(e) ==
  GateResult(0, "", TRUE, e.user, IF Head(Chain(e.route)) = "verifyToken" THEN 1 ELSE 0)

\* the millisecond of the last document built in this second, 0 when there
\* is none
Latest ==
  LET built  == {d.createdAt : d \in posts} \cup {e.createdAt : e \in Waiting}
      before == {c.ms : c \in {b \in built : b.s = now}}
  IN  IF before = {} THEN 0 ELSE CHOOSE m \in before : \A o \in before : o <= m

\* the createdAt a document built in this step can get: the second of the
\* clock, and a millisecond not before that of any document built earlier
\* in this second, the same one or a later one
Dates ==
  IF Latest = 0 THEN {Date(now, 1)} ELSE {Date(now, Latest), Date(now, Latest + 1)}

\* the reply the final handler sends before its first await, status 0 when
\* it goes on to a store call
Started(route, input, reqUser) ==
  LET goesOn == PostReply(0, "", NoPost, "", posts)
  IN  CASE route = "profile" -> getProfile(reqUser, users)
        [] route = "create" ->
             LET r == createPost(input.post, posts, TRUE, nextPostId, NoDate)
             IN  IF r.status = 400 THEN r ELSE goesOn
        [] route = "update" ->
             LET r == updatePost(input.id, input.post, posts, TRUE)
             IN  IF r.status = 400 THEN r ELSE goesOn
        [] OTHER -> goesOn

\* next() was called: the final handler replies at once or suspends at its
\* store call; rest is the bag of the other suspended requests
Continue(route, header, input, at, gate, rest) ==
  \E r \in {Started(route, input, gate.user)} :
    IF r.status # 0
      THEN /\ last' = Answered(route, header, input, gate, r)
           /\ inflight' = rest
      ELSE /\ last' = NoRequest
           /\ \E createdAt \in (IF route = "create" THEN Dates ELSE {NoDate}) :
                inflight' = Parked(rest,
                  [Suspended(route, "store", header, input, at, gate.user)
                     EXCEPT !.createdAt = createdAt])

\* a request arrives at a route: the chain runs up to its first await, which
\* is the lookup of verifyToken when the token verifies at the clock of the
\* arrival
Arrive(route, header, input) ==
  /\ Quiet
  /\ BagCardinality(inflight) < MaxInFlight
  /\ \E gate \in {Gate(route, header, users, TRUE, now)} :
       IF ~gate.next /\ gate.lookups = 0
         THEN /\ last' = Rejected(route, header, input, gate)
              /\ inflight' = inflight
       ELSE IF gate.lookups = 0
         THEN Continue(route, header, input, now, gate, inflight)
       ELSE /\ last' = NoRequest
            /\ inflight' = Parked(inflight,
                                  Suspended(route, "findById", header, input, now, NoRecord))
  /\ UNCHANGED <<users, nextId, posts, nextPostId, now, wallet, JWT_EXPIRES_IN>>

\* User.findById of verifyToken answers, or fails: the gate replies, or calls
\* next and the final handler starts
FindUser(e, gateUp) ==
  /\ Quiet
  /\ BagIn(e, inflight)
  /\ e.stage = "findById"
  /\ \E gate \in {Gate(e.route, e.header, users, gateUp, e.at)} :
       IF ~gate.next
         THEN /\ last' = Rejected(e.route, e.header,
                                  [e.input EXCEPT !.gateUp = gateUp \/ gate.lookups = 0],
                                  gate)
              /\ inflight' = Resumed(e)
       ELSE Continue(e.route, e.header, [e.input EXCEPT !.gateUp = gateUp], e.at, gate,
                     Resumed(e))
  /\ UNCHANGED <<users, nextId, posts, nextPostId, now, wallet, JWT_EXPIRES_IN>>

\* a request arrives at a route without verifyToken: the handler runs to
\* its first await, r being what it does before: it replies, or calls
\* User.findOne
Enter(route, header, body, r) ==
  /\ Quiet
  /\ BagCardinality(inflight) < MaxInFlight
  /\ \E gate \in {Gate(route, header, users, TRUE, now)} :
       IF gate.next /\ r.status = 0
         THEN /\ last' = NoRequest
              /\ inflight' = Parked(inflight,
                   Suspended(route, "findOne", header, UserInput(body, TRUE, ""), 0, NoRecord))
         ELSE /\ last' = Outcome(route, header, UserInput(body, TRUE, ""), gate, r)
              /\ inflight' = inflight
  /\ UNCHANGED <<users, nextId, posts, nextPostId, now, wallet, JWT_EXPIRES_IN>>

\* POST /register arrives: presence check, then User.findOne is called
Register(header, body) ==
  /\ nextId + BagCardinality(inflight) <= MaxIds
  /\ Enter("register", header, body, registerUser_start(body, users))

\* User.findOne of registerUser answers: the handler replies, or builds the
\* argument of User.create and calls it
RegisterFind(e, storeUp) ==
  /\ Quiet
  /\ BagIn(e, inflight)
  /\ e.route = "register"
  /\ e.stage = "findOne"
  /\ \E r \in {registerUser_find(e.input.body, users, storeUp)} :
       IF r.status = 0
         THEN /\ last' = NoRequest
              /\ inflight' = Parked(Resumed(e), Registering(e.header, e.input.body))
         ELSE /\ last' = Answered("register", e.header,
                                  UserInput(e.input.body, storeUp, "findOne"),
                                  Untouched("register"), r)
              /\ inflight' = Resumed(e)
  /\ UNCHANGED <<users, nextId, posts, nextPostId, now, wallet, JWT_EXPIRES_IN>>

\* User.create of registerUser answers: the record is written, or the
\* handler replies with the failure
RegisterCreate(e, storeUp) ==
  /\ Quiet
  /\ BagIn(e, inflight)
  /\ e.route = "register"
  /\ e.stage = "create"
  /\ \E r \in {registerUser_create(e.input.body, users, storeUp, nextId, nextId, now)} :
       IF r.status = 201
         THEN /\ users' = r.store
              /\ nextId' = nextId + 1
              /\ last' = NoRequest
              /\ inflight' = Parked(Resumed(e),
                                    [e EXCEPT !.stage = "token",
                                              !.user = CHOOSE u \in r.store \ users : TRUE])
         ELSE /\ users' = r.store
              /\ nextId' = nextId
              /\ last' = Answered("register", e.header,
                                  UserInput(e.input.body, storeUp, "create"),
                                  Untouched("register"), r)
              /\ inflight' = Resumed(e)
  /\ UNCHANGED <<posts, nextPostId, now, wallet, JWT_EXPIRES_IN>>

\* registerUser goes on with the document User.create returned: it signs
\* the token at the clock of this step and replies
RegisterReply(e) ==
  /\ Quiet
  /\ BagIn(e, inflight)
  /\ e.route = "register"
  /\ e.stage = "token"
  /\ inflight' = Resumed(e)
  /\ \E r \in {registerUser_create(e.input.body, {}, TRUE, e.user.id,
                                     e.user.password.salt, now)} :
       /\ last' = Answered("register", e.header,
                           UserInput(e.input.body, TRUE, "create"),
                           Untouched("register"), r)
       /\ IF r.status = 201 THEN wallet' \in Pocket(r.token) ELSE wallet' = wallet
  /\ UNCHANGED <<users, nextId, posts, nextPostId, now, JWT_EXPIRES_IN>>

\* POST /login arrives: presence check, then User.findOne is called
Login(header, body) == Enter("login", header, body, loginUser_start(body, users))

\* User.findOne of loginUser answers: the handler replies, or holds a
\* document and awaits comparePassword
LoginFind(e, storeUp) ==
  /\ Quiet
  /\ BagIn(e, inflight)
  /\ e.route = "login"
  /\ e.stage = "findOne"
  /\ \E r \in {loginUser(e.input.body, users, storeUp, now)},
        user \in {loginUser_findOne(e.input.body, users, storeUp)} :
       IF user # NoRecord
         THEN /\ last' = NoRequest
              /\ inflight' = Parked(Resumed(e), [e EXCEPT !.stage = "compare", !.user = user])
         ELSE /\ last' = Answered("login", e.header, UserInput(e.input.body, storeUp, ""),
                                  Untouched("login"), r)
              /\ inflight' = Resumed(e)
  /\ UNCHANGED <<users, nextId, posts, nextPostId, now, wallet, JWT_EXPIRES_IN>>

\* comparePassword of loginUser answers: the handler signs the token at the
\* clock of this step and replies
LoginReply(e) ==
  /\ Quiet
  /\ BagIn(e, inflight)
  /\ e.route = "login"
  /\ e.stage = "compare"
  /\ inflight' = Resumed(e)
  /\ \E r \in {loginUser(e.input.body, {e.user}, TRUE, now)} :
       /\ last' = Answered("login", e.header, e.input, Untouched("login"), r)
       /\ IF r.status = 200 THEN wallet' \in Pocket(r.token) ELSE wallet' = wallet
  /\ UNCHANGED <<users, nextId, posts, nextPostId, now, JWT_EXPIRES_IN>>

\* POST /logout arrives: User.findOne is called
Logout(header, body) == Enter("logout", header, body, logoutUser_start(body, users))

\* User.findOne of logoutUser answers: the handler replies
LogoutFind(e, storeUp) ==
  /\ Quiet
  /\ BagIn(e, inflight)
  /\ e.route = "logout"
  /\ e.stage = "findOne"
  /\ \E r \in {logoutUser(e.input.body, users, storeUp)} :
       /\ last' = Answered("logout", e.header, UserInput(e.input.body, storeUp, ""),
                           Untouched("logout"), r)
       /\ users' = r.store
  /\ inflight' = Resumed(e)
  /\ UNCHANGED <<nextId, posts, nextPostId, now, wallet, JWT_EXPIRES_IN>>

\* GET /profile arrives
Profile(header) == Arrive("profile", header, GateInput(TRUE))

\* POST /create arrives
CreatePost(header, body) ==
  Arrive("create", header, PostInput(BadId, body, NoQuery, TRUE, TRUE))

\* GET /getPosts arrives
GetAllPosts(header, query) ==
  Arrive("getPosts", header, PostInput(BadId, NoPostBody, query, TRUE, TRUE))

\* GET /getPost/:id arrives
GetPostById(header, id) ==
  Arrive("getPost", header, PostInput(id, NoPostBody, NoQuery, TRUE, TRUE))

\* PATCH /update/:id arrives
UpdatePost(header, id, body) ==
  Arrive("update", header, PostInput(id, body, NoQuery, TRUE, TRUE))

\* DELETE /delete/:id arrives
DeletePost(header, id) ==
  Arrive("delete", header, PostInput(id, NoPostBody, NoQuery, TRUE, TRUE))

\* the final handler replies r after its store call
Finish(e, storeUp, r) ==
  /\ last' = Answered(e.route, e.header, [e.input EXCEPT !.storeUp = storeUp], GateOf(e), r)
  /\ inflight' = Resumed(e)

\* Post.create of createPost answers
CreatePostStore(e, storeUp) ==
  /\ Quiet
  /\ BagIn(e, inflight)
  /\ e.route = "create"
  /\ e.stage = "store"
  /\ \E r \in {createPost(e.input.post, posts, storeUp, nextPostId, e.createdAt)} :
       /\ Finish(e, storeUp, r)
       /\ posts' = r.store
       /\ nextPostId' = IF r.status = 201 THEN nextPostId + 1 ELSE nextPostId
  /\ UNCHANGED <<users, nextId, now, wallet, JWT_EXPIRES_IN>>

\* the answer of one of the two reads Promise.all awaits, r being getAllPosts
\* on the collection as that read finds it: a failure is caught at once, the
\* first answer is kept (total and pages of countDocuments, data and count
\* of find), the second completes the reply
Gather(e, storeUp, r, read) ==
  LET counted == [r.meta EXCEPT !.count = 0]
      found   == [r.meta EXCEPT !.total = 0, !.pages = 0]
  IN  IF r.status # 200 THEN Finish(e, storeUp, r)
      ELSE IF e.stage = "store"
        THEN /\ last' = NoRequest
             /\ inflight' = Parked(Resumed(e),
                   IF read = "count"
                     THEN [e EXCEPT !.stage = "find", !.meta = counted]
                     ELSE [e EXCEPT !.stage = "count", !.data = r.data, !.meta = found])
      ELSE Finish(e, storeUp,
                  IF read = "count"
                    THEN [r EXCEPT !.data = e.data,
                                   !.meta = [counted EXCEPT !.count = e.meta.count]]
                    ELSE [r EXCEPT !.meta = [found EXCEPT !.total = e.meta.total,
                                                          !.pages = e.meta.pages]])

\* Post.countDocuments of getAllPosts answers, before or after Post.find
GetAllPostsCount(e, storeUp) ==
  /\ Quiet
  /\ BagIn(e, inflight)
  /\ e.route = "getPosts"
  /\ e.stage \in {"store", "count"}
  /\ \E r \in getAllPosts(e.input.query, posts, storeUp) : Gather(e, storeUp, r, "count")
  /\ UNCHANGED <<users, nextId, posts, nextPostId, now, wallet, JWT_EXPIRES_IN>>

\* Post.find of getAllPosts answers, before or after Post.countDocuments
GetAllPostsFind(e, storeUp) ==
  /\ Quiet
  /\ BagIn(e, inflight)
  /\ e.route = "getPosts"
  /\ e.stage \in {"store", "find"}
  /\ \E r \in getAllPosts(e.input.query, posts, storeUp) : Gather(e, storeUp, r, "find")
  /\ UNCHANGED <<users, nextId, posts, nextPostId, now, wallet, JWT_EXPIRES_IN>>

\* Post.findById of getPostById answers
GetPostByIdStore(e, storeUp) ==
  /\ Quiet
  /\ BagIn(e, inflight)
  /\ e.route = "getPost"
  /\ e.stage = "store"
  /\ \E r \in {getPostById(e.input.id, posts, storeUp)} : Finish(e, storeUp, r)
  /\ UNCHANGED <<users, nextId, posts, nextPostId, now, wallet, JWT_EXPIRES_IN>>

\* Post.findByIdAndUpdate of updatePost answers
UpdatePostStore(e, storeUp) ==
  /\ Quiet
  /\ BagIn(e, inflight)
  /\ e.route = "update"
  /\ e.stage = "store"
  /\ \E r \in {updatePost(e.input.id, e.input.post, posts, storeUp)} :
       /\ Finish(e, storeUp, r)
       /\ posts' = r.store
  /\ UNCHANGED <<users, nextId, nextPostId, now, wallet, JWT_EXPIRES_IN>>

\* Post.findByIdAndDelete of deletePost answers
DeletePostStore(e, storeUp) ==
  /\ Quiet
  /\ BagIn(e, inflight)
  /\ e.route = "delete"
  /\ e.stage = "store"
  /\ \E r \in {deletePost(e.input.id, posts, storeUp)} :
       /\ Finish(e, storeUp, r)
       /\ posts' = r.store
  /\ UNCHANGED <<users, nextId, nextPostId, now, wallet, JWT_EXPIRES_IN>>

\* a credential record is removed from the collection (account deleted
\* outside the API)
DeleteUser(u) ==
  /\ Quiet
  /\ u \in users
  /\ users' = users \ {u}
  /\ last' = NoRequest
  /\ UNCHANGED <<nextId, posts, nextPostId, now, wallet, inflight, JWT_EXPIRES_IN>>

\* an existing credential record is loaded and saved again, with or without
\* a new password (no route does this; it is the hook's other entry)
SaveUser(u, password, salt) ==
  /\ Quiet
  /\ u \in users
  /\ \E r \in {User_save(users, u.id, password, salt)} :
       /\ users' = r.store
       /\ last' = [NoRequest EXCEPT !.route = "save", !.user = UserInfo(u),
                                    !.input = UserInput(Body(Undefined, Undefined, password),
                                                        TRUE, ""),
                                    !.error = r.error]
  /\ UNCHANGED <<nextId, posts, nextPostId, now, wallet, inflight, JWT_EXPIRES_IN>>

\* a post is removed from the collection by a request of another client
DropPost(d) ==
  /\ Quiet
  /\ d \in posts
  /\ posts' = posts \ {d}
  /\ last' = NoRequest
  /\ UNCHANGED <<users, nextId, nextPostId, now, wallet, inflight, JWT_EXPIRES_IN>>

\* time passes
Tick(t) ==
  /\ Quiet
  /\ t \in Instants
  /\ t > now
  /\ now' = t
  /\ last' = NoRequest
  /\ UNCHANGED <<users, nextId, posts, nextPostId, wallet, inflight, JWT_EXPIRES_IN>>

\* the reply is delivered to the client (res.json returns)
Deliver ==
  /\ ~Quiet
  /\ last' = NoRequest
  /\ UNCHANGED <<users, nextId, posts, nextPostId, now, wallet, inflight, JWT_EXPIRES_IN>>

(***************************************************************************)
(* Specifications.                                                         *)
(***************************************************************************)
\* only registerUser requests are suspended
OnlyRegistering == \A e \in Waiting : e.route = "register"

\* The user API: every user route, registrations running concurrently with
\* each other, the other requests one at a time, accounts deleted, and time
\* passing.
Next ==
  \/ OnlyRegistering /\ \E body \in RegisterBodies : Register(NoHeader, body)
  \/ \E e \in Waiting, storeUp \in BOOLEAN : RegisterFind(e, storeUp)
  \/ \E e \in Waiting, storeUp \in BOOLEAN : RegisterCreate(e, storeUp)
  \/ \E e \in Waiting : RegisterReply(e)
  \/ Idle /\ \E body \in LoginBodies : Login(NoHeader, body)
  \/ \E e \in Waiting, storeUp \in BOOLEAN : LoginFind(e, storeUp)
  \/ \E e \in Waiting : LoginReply(e)
  \/ OnlyRegistering /\ \E body \in LogoutBodies : Logout(NoHeader, body)
  \/ \E e \in Waiting, storeUp \in BOOLEAN : LogoutFind(e, storeUp)
  \/ Idle /\ \E header \in Headers : Profile(header)
  \/ \E e \in Waiting, gateUp \in BOOLEAN : FindUser(e, gateUp)
  \/ \E u \in users : DeleteUser(u)
  \/ \E t \in Instants : Tick(t)
  \/ Deliver

Spec == Init /\ [][Next]_vars

\* the server started without JWT_EXPIRES_IN
InitDefault ==
  /\ Init
  /\ JWT_EXPIRES_IN = <<>>

\* The protected routes under every header, one request at a time, with
\* accounts registered, accounts deleted, and time passing.
GateBodies ==
  { Body(Str(Name_Bob), Str(Mail_A), Str(Pass_secret)),
    Body(Str(Name_amy), Str(Mail_b), Str(Pass_Secret)) }

GatePostBodies == { PostBody(Str(Name_amy), Str(Name_Bob), Num(0)) }

GatePostIds == { PostId(1) }

NextGate ==
  \/ Idle /\ \E body \in GateBodies : Register(NoHeader, body)
  \/ \E e \in Waiting : RegisterFind(e, TRUE)
  \/ \E e \in Waiting : RegisterCreate(e, TRUE)
  \/ \E e \in Waiting : RegisterReply(e)
  \/ Idle /\ \E header \in Headers : Profile(header)
  \/ Idle /\ nextPostId <= MaxPostIds
          /\ \E header \in Headers, body \in GatePostBodies : CreatePost(header, body)
  \/ Idle /\ \E header \in Headers : GetAllPosts(header, NoQuery)
  \/ Idle /\ \E header \in Headers, id \in GatePostIds : GetPostById(header, id)
  \/ Idle /\ \E header \in Headers, id \in GatePostIds :
       UpdatePost(header, id, PostBody(Undefined, Undefined, Num(0)))
  \/ Idle /\ \E header \in Headers, id \in GatePostIds : DeletePost(header, id)
  \/ \E e \in Waiting, gateUp \in BOOLEAN : FindUser(e, gateUp)
  \/ \E e \in Waiting : CreatePostStore(e, TRUE)
  \/ \E e \in Waiting : GetAllPostsCount(e, TRUE)
  \/ \E e \in Waiting : GetAllPostsFind(e, TRUE)
  \/ \E e \in Waiting : GetPostByIdStore(e, TRUE)
  \/ \E e \in Waiting : UpdatePostStore(e, TRUE)
  \/ \E e \in Waiting : DeletePostStore(e, TRUE)
  \/ \E u \in users : DeleteUser(u)
  \/ \E t \in Instants : Tick(t)
  \/ Deliver

SpecGate == InitDefault /\ [][NextGate]_vars

\* The credential records over their life: registered one at a time, saved
\* again with and without a new password, and logged into.
SavePasswords == {Undefined, Str(Pass_Secret), Str(Pass_short)}

SaveLoginBodies ==
  { Body(Undefined, Str(m), Str(p)) : m \in {Mail_A, Mail_b},
                                      p \in {Pass_secret, Pass_Secret} }

NextSave ==
  \/ Idle /\ \E body \in GateBodies : Register(NoHeader, body)
  \/ \E e \in Waiting : RegisterFind(e, TRUE)
  \/ \E e \in Waiting : RegisterCreate(e, TRUE)
  \/ \E e \in Waiting : RegisterReply(e)
  \/ \E u \in users, password \in SavePasswords, salt \in 1..MaxIds :
       SaveUser(u, password, salt)
  \/ Idle /\ \E body \in SaveLoginBodies : Login(NoHeader, body)
  \/ \E e \in Waiting : LoginFind(e, TRUE)
  \/ \E e \in Waiting : LoginReply(e)
  \/ Deliver

SpecSave == InitDefault /\ [][NextSave]_vars

\* The post API used by one registered client, with and without its
\* token, creations running concurrently with each other, the other
\* requests one at a time, the Post collection answering or failing and
\* other clients deleting posts.
\* the posts created while another creation is suspended
PostsOverlapBodies == { PostBody(Str(Name_amy), Str(Name_amy), Num(AgeMax)) }

\* a createPost is suspended and nothing else is
Creating == Waiting # {} /\ \A e \in Waiting : e.route = "create"

PostsUserBodies == { Body(Str(Name_Bob), Str(Mail_A), Str(Pass_secret)) }

PostsHeaders == {NoHeader} \cup {Header(Bearer_ \o <<"$">>, tok) : tok \in wallet}

Text_5 == <<"5">>

PostsCreateBodies ==
  { PostBody(Str(Name_amy), Str(Name_Bob), Num(0)),
    PostBody(Str(Name_amy), Str(Name_amy), Num(AgeMax)),
    PostBody(Str(Name_Bob), Str(Name_Bob), Num(AgeMax + 1)),
    PostBody(Undefined, Str(Name_Bob), Num(0)),
    PostBody(Str(Name_amy), Str(<<>>), Num(0)),
    PostBody(Str(Name_amy), Str(Name_Bob), Undefined),
    PostBody(Str(Name_amy), Str(Name_Bob), Str(Text_5)),
    PostBody(Num(5), Str(Name_Bob), Num(0)),
    PostBody(Num(0), Str(Name_Bob), Num(0)) }

PostsUpdateBodies ==
  { NoPostBody,
    WithOtherKey(NoPostBody),
    PostBody(Str(Name_BOB), Undefined, Undefined),
    PostBody(Undefined, Undefined, Num(AgeMax)),
    PostBody(Undefined, Undefined, Num(AgeMax + 1)),
    PostBody(Undefined, Undefined, Str(Text_5)),
    PostBody(Num(5), Undefined, Undefined),
    PostBody(Num(0), Undefined, Undefined) }

PostsQueries ==
  { Query(page, limit, q) :
      page  \in {Undefined, Str(<<"0">>), Str(<<"2">>), Str(<<"-", "1">>), Str(<<"x">>)},
      limit \in {Undefined, Str(<<"0">>), Str(<<"1">>), Str(<<"1", "0", "1">>),
                 Str(<<"-", "5">>), Str(<<"x">>)},
      q     \in {Undefined, Str(<<"B", "O">>)} }

PostsIds == {PostId(i) : i \in 1..MaxPosts} \cup {BadId}

NextPosts ==
  \/ users = {} /\ Idle /\ \E body \in PostsUserBodies : Register(NoHeader, body)
  \/ \E e \in Waiting : RegisterFind(e, TRUE)
  \/ \E e \in Waiting : RegisterCreate(e, TRUE)
  \/ \E e \in Waiting : RegisterReply(e)
  \/ Idle /\ nextPostId <= MaxPosts
          /\ \E header \in PostsHeaders, body \in PostsCreateBodies : CreatePost(header, body)
  \/ Creating /\ nextPostId + BagCardinality(inflight) <= MaxPosts
              /\ Latest + BagCardinality(inflight) < MaxMillis
              /\ \E tok \in wallet, body \in PostsOverlapBodies :
                   CreatePost(Header(Bearer_ \o <<"$">>, tok), body)
  \/ Idle /\ \E header \in PostsHeaders, query \in PostsQueries : GetAllPosts(header, query)
  \/ Idle /\ \E header \in PostsHeaders, id \in PostsIds : GetPostById(header, id)
  \/ Idle /\ \E header \in PostsHeaders, id \in PostsIds, body \in PostsUpdateBodies :
       UpdatePost(header, id, body)
  \/ Idle /\ \E header \in PostsHeaders, id \in PostsIds : DeletePost(header, id)
  \/ \E e \in Waiting : FindUser(e, TRUE)
  \/ \E e \in Waiting, storeUp \in BOOLEAN : CreatePostStore(e, storeUp)
  \/ \E e \in Waiting, storeUp \in BOOLEAN : GetAllPostsCount(e, storeUp)
  \/ \E e \in Waiting, storeUp \in BOOLEAN : GetAllPostsFind(e, storeUp)
  \/ \E e \in Waiting, storeUp \in BOOLEAN : GetPostByIdStore(e, storeUp)
  \/ \E e \in Waiting, storeUp \in BOOLEAN : UpdatePostStore(e, storeUp)
  \/ \E e \in Waiting, storeUp \in BOOLEAN : DeletePostStore(e, storeUp)
  \/ \E d \in posts : DropPost(d)
  \/ Deliver

SpecPosts == InitDefault /\ [][NextPosts]_vars

(***************************************************************************)
(* Properties of the auth gate, checked under SpecGate.                    *)
(***************************************************************************)
ProtectedHandler ==
  [profile |-> "getProfile", create |-> "createPost", getPosts |-> "getAllPosts",
   getPost |-> "getPostById", update |-> "updatePost", delete |-> "deletePost"]

ProtectedRoutes == DOMAIN ProtectedHandler

\* the handler ran for the request l
InvokedIn(l, handler) == \E i \in DOMAIN l.ran : l.ran[i] = handler

Invoked(handler) == InvokedIn(last, handler)

\* the header starts with the seven characters "Bearer "
HasScheme(h) ==
  h.present /\ Len(h.text) >= 7 /\ \A i \in 1..7 : h.text[i] = Bearer_[i]

\* the text of the header after the scheme and its single space
Credentials(h) == SubSeq(h.text, 8, Len(h.text))

\* the header is 'Bearer <token>', possibly followed by a space and more text
CarriesToken(h) ==
  /\ HasScheme(h)
  /\ Credentials(h) # <<>>
  /\ Head(Credentials(h)) = "$"
  /\ Len(Credentials(h)) > 1 => Credentials(h)[2] = " "

\* the token was signed with the server secret and has not expired
Genuine(tok) == tok.sig = JWT_SECRET /\ now < tok.exp

\* the records the token was issued for
Subjects(tok) == {u \in users : u.id = tok.id}

\* the request of the last step presented a token that authenticates it
Authentic(h) == CarriesToken(h) /\ Genuine(h.jwt) /\ Subjects(h.jwt) # {}

\* the suspended request carries a token that verified when it arrived
Verified(e) ==
  CarriesToken(e.header) /\ e.header.jwt.sig = JWT_SECRET /\ e.at < e.header.jwt.exp

\* the request presented a token and verifyToken attached its record
Vouched(header, reqUser) ==
  /\ CarriesToken(header)
  /\ header.jwt.sig = JWT_SECRET
  /\ reqUser # NoRecord
  /\ reqUser.id = header.jwt.id
  /\ reqUser.password = NoPassword

\* the requests that suspend in a step, and those that resume in it
Entered == {e \in BagToSet(inflight') : CopiesIn(e, inflight') > CopiesIn(e, inflight)}

Left == {e \in BagToSet(inflight) : CopiesIn(e, inflight) > CopiesIn(e, inflight')}

\* the gate ended the request l
GateEndedIn(l) == l.route \in ProtectedRoutes /\ l.ran = <<"verifyToken">>

GateEnded == GateEndedIn(last)

\* the final handler of the route sent nothing to the request l
NothingServedIn(l) ==
  l.user = NoUserInfo /\ l.token = NoToken /\ l.post = NoPost /\ l.data = <<>>

NothingServed == NothingServedIn(last)

\* the bodies of the responses the gate sends
GateMessages ==
  {"Access token required", "Token expired", "Invalid token", "User not found",
   "Internal server error"}

\* C1: a protected handler runs for a request only after verifyToken called
\* next() for that request with req.user set to an existing credential
\* record; a request the gate rejects never reaches the handler.  Step by
\* step: a request waits for the lookup only with a token that verifies at
\* its arrival, the handler starts only in the step of a lookup that finds
\* the record of the token's id, it goes on with that same req.user, and a
\* rejection ends the request.
C1_HandlerOnlyBehindGate ==
  [][ /\ \A e \in Entered : e.route \in ProtectedRoutes =>
           IF e.stage = "findById"
             THEN Left = {} /\ e.at = now /\ Verified(e) /\ last' = NoRequest
             ELSE \E f \in Left :
                    /\ f.route = e.route /\ f.header = e.header /\ f.at = e.at
                    /\ Verified(f)
                    /\ IF f.stage = "findById"
                         THEN \E u \in users : /\ e.user = WithoutPassword(u)
                                               /\ u.id = e.header.jwt.id
                         ELSE e.user = f.user
      /\ \A route \in ProtectedRoutes :
           InvokedIn(last', ProtectedHandler[route]) =>
             /\ last'.route = route
             /\ last'.ran = <<"verifyToken", ProtectedHandler[route]>>
             /\ last'.lookups = 1
             /\ Vouched(last'.header, last'.reqUser)
             /\ \E f \in Left :
                  /\ f.route = route /\ f.header = last'.header
                  /\ Verified(f)
                  /\ IF f.stage = "findById"
                       THEN \E u \in users : /\ last'.reqUser = WithoutPassword(u)
                                             /\ u.id = last'.header.jwt.id
                       ELSE last'.reqUser = f.user
             /\ Entered = {}
      /\ GateEndedIn(last') =>
           /\ last'.status \in {401, 500}
           /\ NothingServedIn(last')
           /\ Entered = {}
           /\ posts' = posts
           /\ nextPostId' = nextPostId ]_vars

C1_Witness ==
  /\ last.route = "delete"
  /\ Invoked("deletePost")
  /\ last.status = 200
  /\ last.post # NoPost
  /\ Subjects(last.header.jwt) = {}

\* C2: for a header 'Bearer <token>' whose token is signed with the server
\* secret, unexpired, and whose id is that of an existing record (the store
\* answering the lookup), verifyToken sets req.user to the record with the
\* token's id and calls next(): the handler runs and the gate sends nothing.
\* Step by step: the gate does not reject such a token at the arrival, and
\* the lookup that finds the record hands it to the handler, which replies
\* or goes on to its store call in that step.
C2_ValidTokenAuthenticates ==
  [][ /\ (GateEndedIn(last') /\ Left = {}) =>
           ~(CarriesToken(last'.header) /\ Genuine(last'.header.jwt))
      /\ \A f \in Left :
           (/\ f.route \in ProtectedRoutes
            /\ f.stage = "findById"
            /\ Subjects(f.header.jwt) # {}) =>
              \/ GateEndedIn(last') /\ ~last'.input.gateUp
              \/ /\ last'.route = f.route
                 /\ last'.ran = <<"verifyToken", ProtectedHandler[f.route]>>
                 /\ \A u \in Subjects(f.header.jwt) : last'.reqUser = WithoutPassword(u)
                 /\ last'.lookups = 1
                 /\ last'.message \notin GateMessages
              \/ /\ last' = NoRequest
                 /\ \E e \in Entered :
                      /\ e.route = f.route /\ e.stage = "store"
                      /\ \A u \in Subjects(f.header.jwt) : e.user = WithoutPassword(u) ]_vars

C2_Witness ==
  /\ last.route = "profile"
  /\ last.status = 200
  /\ Cardinality(users) = 2
  /\ last.reqUser.id = 2
  /\ last.user.id = 2

\* C3: when the Authorization header is absent, empty, or does not start
\* with the case-sensitive prefix 'Bearer ', verifyToken answers 401
\* 'Access token required', does not call next() and looks nothing up.
C3_MissingToken ==
  /\ (last.route \in ProtectedRoutes /\ ~HasScheme(last.header)) =>
       /\ last.status = 401
       /\ last.message = "Access token required"
       /\ GateEnded
       /\ last.lookups = 0
       /\ last.reqUser = NoRecord
  /\ \A e \in Waiting : e.route \in ProtectedRoutes => HasScheme(e.header)

C3_Witness ==
  /\ last.route \in ProtectedRoutes
  /\ last.header.text = bearer_ \o <<"$">>
  /\ Genuine(last.header.jwt)
  /\ Subjects(last.header.jwt) # {}
  /\ last.status = 401

\* C4: for a header 'Bearer <token>', a token signed with the server secret
\* whose expiry has passed is rejected 401 'Token expired', and a token
\* signed with another secret or a malformed one 401 'Invalid token'; in
\* both cases next() is not called and the store is not consulted.  The
\* token is verified at the arrival of the request: a request that waits for
\* the lookup carries a token that verified then.
C4_ExpiredOrInvalid ==
  [][ /\ (/\ last'.route \in ProtectedRoutes
          /\ Left = {}
          /\ CarriesToken(last'.header)
          /\ last'.header.jwt.sig = JWT_SECRET
          /\ now >= last'.header.jwt.exp) =>
            /\ last'.status = 401 /\ last'.message = "Token expired"
            /\ GateEndedIn(last') /\ last'.lookups = 0 /\ last'.reqUser = NoRecord
      /\ (/\ last'.route \in ProtectedRoutes
          /\ HasScheme(last'.header)
          /\ \/ CarriesToken(last'.header) /\ last'.header.jwt.sig # JWT_SECRET
             \/ /\ Credentials(last'.header) # <<>>
                /\ Head(Credentials(last'.header)) \notin {"$", " "}) =>
            /\ last'.status = 401 /\ last'.message = "Invalid token"
            /\ GateEndedIn(last') /\ last'.lookups = 0 /\ last'.reqUser = NoRecord
            /\ Left = {}
      /\ \A e \in Entered : e.route \in ProtectedRoutes =>
           /\ Verified(e)
           /\ e.stage = "findById" => e.at = now ]_vars

C4_Witness ==
  /\ last.route \in ProtectedRoutes
  /\ CarriesToken(last.header)
  /\ last.header.jwt.sig = JWT_SECRET
  /\ now >= last.header.jwt.exp
  /\ Subjects(last.header.jwt) # {}
  /\ last.message = "Token expired"

\* C5: once the record a token was issued for is gone from the store, every
\* presentation of that still unexpired, correctly signed token is rejected
\* 401 'User not found' and next() is not called.  The record is looked up
\* after the token verified: the lookup that finds no record of the token's
\* id ends the request.
C5_SubjectGone ==
  [][ \A f \in Left :
        (/\ f.route \in ProtectedRoutes
         /\ f.stage = "findById"
         /\ Subjects(f.header.jwt) = {}
         /\ last'.input.gateUp) =>
           /\ last'.route = f.route
           /\ last'.header = f.header
           /\ last'.status = 401
           /\ last'.message = "User not found"
           /\ GateEndedIn(last')
           /\ last'.reqUser = NoRecord
           /\ Entered = {} ]_vars

C5_Witness ==
  /\ last.route \in ProtectedRoutes
  /\ CarriesToken(last.header)
  /\ Genuine(last.header.jwt)
  /\ Subjects(last.header.jwt) = {}
  /\ users # {}
  /\ last.message = "User not found"

\* the sub-reason for which the gate rejects a header at the arrival of the
\* request
SubReason(h) ==
  IF ~HasScheme(h) THEN "MissingToken"
  ELSE IF ~CarriesToken(h) \/ h.jwt.sig # JWT_SECRET THEN "Invalid"
  ELSE IF now >= h.jwt.exp THEN "Expired"
  ELSE "SubjectGone"

RejectionMessage ==
  [MissingToken |-> "Access token required", Expired |-> "Token expired",
   Invalid |-> "Invalid token", SubjectGone |-> "User not found"]

\* C6 as claimed: every auth-gate rejection gets the same status and the
\* same body as any other rejection, whatever the sub-reason.
C6_UniformRejection ==
  (GateEnded /\ last.input.gateUp) =>
    \A h \in Headers :
      LET g == verifyToken(h, users, TRUE, now)
      IN  ~g.next => (g.status = last.status /\ g.message = last.message)

\* C6 as amended: every auth-gate rejection gets the status 401, the same
\* for all sub-reasons, and a body that names the sub-reason: that of the
\* header when the gate rejects at the arrival, 'User not found' when it
\* rejects after the lookup.
C6_UniformStatusOnly ==
  (GateEnded /\ last.input.gateUp) =>
    /\ last.status = 401
    /\ IF last.lookups = 0
         THEN /\ SubReason(last.header) # "SubjectGone"
              /\ last.message = RejectionMessage[SubReason(last.header)]
         ELSE /\ CarriesToken(last.header)
              /\ last.header.jwt.sig = JWT_SECRET
              /\ Subjects(last.header.jwt) = {}
              /\ last.message = RejectionMessage["SubjectGone"]
    /\ \A h \in Headers :
         LET g == verifyToken(h, users, TRUE, now)
         IN  ~g.next => g.status = last.status

C6_Witness ==
  /\ GateEnded
  /\ last.status = 401
  /\ last.message = "User not found"
  /\ \E h \in Headers : verifyToken(h, users, TRUE, now).message = "Invalid token"
  /\ \E h \in Headers : verifyToken(h, users, TRUE, now).message = "Access token required"

\* the header has the scheme but nothing, or a second space, where the
\* token should start
EmptyToken(h) ==
  HasScheme(h) /\ (Credentials(h) = <<>> \/ Head(Credentials(h)) = " ")

\* C7: a header 'Bearer ' with nothing after the space, or with a second
\* space before a token, is rejected 401 'Invalid token' without next() being
\* called, even when the text after the second space is a valid token.
C7_EmptyTokenIsInvalid ==
  /\ (last.route \in ProtectedRoutes /\ EmptyToken(last.header)) =>
       /\ last.status = 401
       /\ last.message = "Invalid token"
       /\ GateEnded
       /\ last.lookups = 0
       /\ last.reqUser = NoRecord
  /\ \A e \in Waiting : e.route \in ProtectedRoutes => ~EmptyToken(e.header)

C7_Witness ==
  /\ last.route \in ProtectedRoutes
  /\ last.header.text = Bearer_ \o <<" ", "$">>
  /\ Genuine(last.header.jwt)
  /\ Subjects(last.header.jwt) # {}
  /\ last.message = "Invalid token"

(***************************************************************************)
(* Properties of registration, checked under Spec.                         *)
(***************************************************************************)
\* trimmed and lowercased
Normalized(s) == Trim(ToLowerCase(s))

\* the three fields are strings that satisfy the schema once normalized
ValidTriple(b) ==
  /\ b.username.t = "string" /\ b.email.t = "string" /\ b.password.t = "string"
  /\ ValidUserDoc(Normalized(b.username.s), Normalized(b.email.s), b.password.s)

\* the records that hold the normalized email or username of a body
ConflictingIn(store, b) ==
  {u \in store : u.email = Normalized(b.email.s) \/ u.username = Normalized(b.username.s)}

Conflicting(b) == ConflictingIn(users, b)

\* a registerUser or loginUser suspended at a stage
Pending(e, route, stage) == e.route = route /\ e.stage = stage

\* C8: a registration of a valid triple fails only when a conflicting record
\* exists; when it succeeds (201) exactly one record holds the normalized
\* email and username, the reply describes it, and the returned token,
\* presented to verifyToken, resolves to that record.  The record is written
\* in the step of User.create and the reply is sent in a later step: the
\* reply describes the record that step wrote, and the token resolves to it
\* while it is in the store.
C8_RegistrationRoundTrip ==
  [][ /\ \A e \in Entered :
           Pending(e, "register", "token") =>
             /\ e.user \in users' \ users
             /\ e.user.email = Normalized(e.input.body.email.s)
             /\ e.user.username = Normalized(e.input.body.username.s)
             /\ ConflictingIn(users', e.input.body) = {e.user}
      /\ (last'.route = "register" /\ last'.status = 201) =>
           \E e \in Left :
             /\ Pending(e, "register", "token")
             /\ e.input.body = last'.input.body
             /\ last'.user = UserInfo(e.user)
             /\ e.user \in users' =>
                  LET g == verifyToken(Header(Bearer_ \o <<"$">>, last'.token),
                                       users', TRUE, now')
                  IN  g.next /\ g.user = WithoutPassword(e.user)
      /\ (/\ last'.route = "register"
          /\ ValidTriple(last'.input.body)
          /\ last'.input.storeUp
          /\ last'.status # 201) => ConflictingIn(users', last'.input.body) # {} ]_vars

C8_Witness ==
  /\ last.route = "register"
  /\ last.status = 201
  /\ last.input.body.username.s = Name_Bob
  /\ last.input.body.email.s = Mail_A
  /\ last.user.username = <<"b", "o", "b">>
  /\ last.user.email = <<"a", "@", "x", ".", "c", "o">>
  /\ last.token.id = last.user.id

\* C9: a registerUser that starts when a record already holds its email,
\* up to letter case and surrounding white space, is rejected 409 'Email
\* already in use', creates no record and issues no token; it never goes
\* past User.findOne to User.create.
C9_NormalizedEmailConflict ==
  [][ /\ \A e \in Entered :
           Pending(e, "register", "create") =>
             ~ \E u \in users : u.email = Normalized(e.input.body.email.s)
      /\ (/\ last'.route = "register"
          /\ last'.input.step = "findOne"
          /\ ~Falsy(last'.input.body.username)
          /\ ~Falsy(last'.input.body.password)
          /\ last'.input.body.email.t = "string"
          /\ last'.input.storeUp
          /\ \E u \in users : u.email = Normalized(last'.input.body.email.s))
         => (/\ last'.status = 409
             /\ last'.message = "Email already in use"
             /\ last'.token = NoToken
             /\ last'.user = NoUserInfo
             /\ users' = users
             /\ wallet' = wallet
             /\ Entered = {}) ]_vars

C9_Witness ==
  /\ last.route = "register"
  /\ last.status = 409
  /\ last.input.body.email.s = Mail_a_padded
  /\ \E u \in users : u.email = Normalized(Mail_A) /\ u.username = Normalized(Name_Bob)

\* C10 as claimed: of the registerUser requests that run concurrently with
\* one email, one gets 201 and every other one 409; the store never holds
\* two records for the email and no loser gets a token.
C10_ConcurrentLosersGet409 ==
  LET b == last.input.body
  IN  /\ \A u, v \in users : u.email = v.email => u = v
      /\ (/\ last.route = "register"
          /\ last.input.step = "create"
          /\ last.input.storeUp
          /\ ValidTriple(b)
          /\ last.status # 201
          /\ \E u \in users : u.email = Normalized(b.email.s)) =>
            /\ last.status = 409
            /\ last.token = NoToken

\* username, email and password are all present in the body
AllPresent(b) == ~Falsy(b.username) /\ ~Falsy(b.password) /\ ~Falsy(b.email)

\* C11 as claimed: a registerUser with a fresh email and a username that
\* another record holds is not answered with the generic 500 'Internal
\* server error' but with a distinguishable conflict, and creates no record.
C11_UsernameConflictDistinguishable ==
  LET b == last.input.body
  IN  (/\ last.route = "register"
       /\ ValidTriple(b)
       /\ last.input.storeUp
       /\ \E u \in users : u.username = Normalized(b.username.s)
       /\ ~ \E u \in users : u.email = Normalized(b.email.s)) =>
         /\ last.status # 500
         /\ last.message # "Internal server error"

\* C12: a registerUser missing username, email or password is answered 400
\* 'All fields are required' whether or not the store answers, before any
\* lookup; it never reaches User.create, so nothing is hashed, no record is
\* created and no token is issued.  The reply is sent in the step of the
\* arrival: the request never waits for a store call.
C12_MissingFieldRejectedFirst ==
  [][ /\ \A e \in BagToSet(inflight') :
           e.route = "register" => AllPresent(e.input.body)
      /\ (last'.route = "register" /\ ~AllPresent(last'.input.body)) =>
           /\ last'.status = 400
           /\ last'.message = "All fields are required"
           /\ last'.input.step = ""
           /\ Left = {}
           /\ last'.token = NoToken
           /\ last'.user = NoUserInfo
           /\ users' = users
           /\ nextId' = nextId
           /\ wallet' = wallet
           /\ inflight' = inflight ]_vars

C12_Witness ==
  /\ last.route = "register"
  /\ last.input.body.email = Undefined
  /\ last.input.step = ""
  /\ last.status = 400
  /\ \E e \in Waiting : Pending(e, "register", "findOne")

\* C13 as claimed: a registerUser whose fields are present but invalid
\* (username or password length, email pattern, non-string email) is
\* answered 400, not 500.
C13_InvalidFieldsAre400 ==
  LET b == last.input.body
  IN  (/\ last.route = "register"
       /\ AllPresent(b)
       /\ ~ValidTriple(b)
       /\ last.input.storeUp
       /\ Conflicting(b) = {}) => last.status = 400

(***************************************************************************)
(* Properties of login, checked under Spec.                                *)
(***************************************************************************)
\* the records whose stored email is the trimmed-lowercased email of a body
Account(b) == {u \in users : u.email = Normalized(b.email.s)}

\* email and password are non-empty strings
Submitted(b) ==
  /\ b.email.t = "string" /\ b.email.s # <<>>
  /\ b.password.t = "string" /\ b.password.s # <<>>

\* no record has the email of the body
UnknownEmail(b) == Submitted(b) /\ Account(b) = {}

\* a record has the email of the body and its hash rejects the password
WrongPassword(b) ==
  Submitted(b) /\ \E u \in Account(b) : ~Verifies(u, b.password.s)

\* the response both failures get
InvalidCredentials ==
  [status |-> 401, message |-> "Invalid credentials", user |-> NoUserInfo, token |-> NoToken]

\* the status and body of a response
Content(r) ==
  [status |-> r.status, message |-> r.message, user |-> r.user, token |-> r.token]

\* C14: a loginUser that fails because no record has the email and one that
\* fails because the password does not match get the same status and body,
\* 401 'Invalid credentials'.  The first replies in the step where
\* User.findOne answers, the second in the step after comparePassword, for
\* the document findOne returned.
C14_LoginFailuresIndistinguishable ==
  [][ /\ (/\ last'.route = "login"
          /\ last'.input.storeUp
          /\ \E e \in Left : Pending(e, "login", "findOne")
          /\ UnknownEmail(last'.input.body)) => Content(last') = InvalidCredentials
      /\ \A e \in Left :
           (/\ Pending(e, "login", "compare")
            /\ Submitted(e.input.body)
            /\ ~Verifies(e.user, e.input.body.password.s)) =>
              /\ last'.route = "login"
              /\ last'.input.body = e.input.body
              /\ Content(last') = InvalidCredentials
      /\ \A e \in Entered :
           Pending(e, "login", "compare") =>
             /\ e.user \in Account(e.input.body)
             /\ \E f \in Left : Pending(f, "login", "findOne") /\ f.input = e.input
      /\ \A e \in Left :
           (Pending(e, "login", "findOne") /\ Entered = {}) =>
             (last'.input.storeUp => Account(e.input.body) = {}) ]_vars

C14_Witness ==
  /\ last.route = "login"
  /\ WrongPassword(last.input.body)
  /\ Content(last) = InvalidCredentials
  /\ \E b \in LoginBodies : UnknownEmail(b)

\* C15: loginUser answers 200 exactly when a record holds the
\* trimmed-lowercased submitted email and its hash verifies the submitted
\* password; the reply then describes that record and its token resolves
\* through verifyToken to it.  The record is the one User.findOne returns
\* in the step where it answers; the reply follows comparePassword in a
\* later step, and its token resolves to the record while it is in the
\* store.
C15_LoginSucceedsIffCredentialsMatch ==
  [][ /\ (last'.route = "login" /\ Submitted(last'.input.body) /\ last'.input.storeUp) =>
           IF \E e \in Left : Pending(e, "login", "findOne")
             THEN Account(last'.input.body) = {} /\ last'.status # 200
             ELSE \E e \in Left :
                    /\ Pending(e, "login", "compare")
                    /\ e.input.body = last'.input.body
                    /\ last'.status = 200 <=> Verifies(e.user, e.input.body.password.s)
                    /\ last'.status = 200 =>
                         /\ last'.user = UserInfo(e.user)
                         /\ e.user \in users =>
                              LET g == verifyToken(Header(Bearer_ \o <<"$">>, last'.token),
                                                   users, TRUE, now)
                              IN  g.next /\ g.user = WithoutPassword(e.user)
      /\ \A e \in Entered :
           Pending(e, "login", "compare") =>
             /\ Account(e.input.body) = {e.user}
             /\ last' = NoRequest ]_vars

C15_Witness ==
  /\ last.route = "login"
  /\ last.status = 200
  /\ last.input.body.email.s = Mail_a_padded
  /\ last.input.body.password.s = Pass_secret
  /\ last.user.email = Normalized(Mail_A)
  /\ last.token.id = last.user.id

(***************************************************************************)
(* Invariants of the credential store, checked under Spec.                 *)
(***************************************************************************)
\* C16: no record of the store holds a plaintext password; the record a
\* registerUser made durable holds the hasher's output for the submitted
\* password.
C16_NoPlaintextPassword ==
  /\ \A u \in users :
       /\ u.password.kind = "bcrypt"
       /\ u.password.rounds = SaltRounds
  /\ \A e \in Waiting :
       Pending(e, "register", "token") =>
         /\ e.user.password # PlainText(CastString(e.input.body.password))
         /\ e.user.password =
              BcryptHash(CastString(e.input.body.password), SaltRounds, e.user.password.salt)
  /\ (last.route = "register" /\ last.status = 201) =>
       \A u \in users :
         u.id = last.user.id =>
           u.password =
             BcryptHash(CastString(last.input.body.password), SaltRounds, u.password.salt)

C16_Witness ==
  /\ last.route = "register"
  /\ last.status = 201
  /\ last.input.body.password = Num(123456)
  /\ \E u \in users :
       /\ u.id = last.user.id
       /\ u.password.kind = "bcrypt"
       /\ u.password.of = <<"1", "2", "3", "4", "5", "6">>

\* C17: the store holds at most one record per username and per email,
\* every stored username and email is trimmed and lowercase, and no two
\* records are equal in username or email after trimming and lowercasing.
C17_OneRecordPerIdentity ==
  \A u, v \in users :
    /\ u.username = Normalized(u.username)
    /\ u.email = Normalized(u.email)
    /\ (u.username = v.username \/ u.email = v.email) => u = v
    /\ (\/ Normalized(u.username) = Normalized(v.username)
        \/ Normalized(u.email) = Normalized(v.email)) => u = v

C17_Witness ==
  /\ users # {}
  /\ last.route = "register"
  /\ last.input.step = "create"
  /\ last.status = 500
  /\ Conflicting(last.input.body) # {}

(***************************************************************************)
(* Properties of the hasher and of tokens, checked under Spec.             *)
(***************************************************************************)
\* passwords a client may try
Passwords ==
  {<<>>, Pass_secret, Pass_Secret, Pass_short, Pass_long_a, Pass_long_b}

\* C18 as claimed: the hash of a password differs from the password and
\* verifies it, and no other password, differing by case only or empty or
\* otherwise, verifies against it.
C18_HashVerifiesOnlyItsPassword ==
  (last.route = "register" /\ last.status = 201 /\ last.input.body.password.t = "string") =>
    \A u \in users :
      u.id = last.user.id =>
        LET p == last.input.body.password.s
        IN  /\ u.password # PlainText(p)
            /\ Verifies(u, p)
            /\ \A q \in Passwords : q # p => ~Verifies(u, q)

\* the lifetime generateToken gives a token, in seconds
Lifetime == IF JWT_EXPIRES_IN = <<>> THEN DefaultExpiresIn ELSE Timespan(JWT_EXPIRES_IN)

\* verifyToken calls next() for the header 'Bearer <token>'
Accepts(tok, store, t) ==
  verifyToken(Header(Bearer_ \o <<"$">>, tok), store, TRUE, t).next

\* C19: a token issued by registerUser or loginUser at time t expires at t
\* plus the default lifetime of 7 days; while its record exists, verifyToken
\* accepts it at every time before the expiry and answers 401 'Token
\* expired' at every time after it.  The time t is the clock of the step
\* that replies, the default is what the server uses when JWT_EXPIRES_IN is
\* not set, and verifyToken reads the clock when the request arrives.
C19_ExpiryIsIssuePlusLifetime ==
  /\ (last.route \in {"register", "login"} /\ last.status \in {200, 201}) =>
       /\ last.token.iat = now
       /\ last.token.exp = now + Lifetime
       /\ JWT_EXPIRES_IN = <<>> => last.token.exp = now + DefaultExpiresIn
  /\ \A tok \in wallet :
       /\ tok.exp = tok.iat + Lifetime
       /\ Subjects(tok) # {} =>
            \A t \in Instants :
              LET g == verifyToken(Header(Bearer_ \o <<"$">>, tok), users, TRUE, t)
              IN  /\ t < tok.exp => g.next
                  /\ t > tok.exp =>
                       ~g.next /\ g.status = 401 /\ g.message = "Token expired"
  /\ \A e \in Waiting : e.route = "profile" => e.at < e.header.jwt.exp
  /\ (/\ last.route = "profile"
      /\ CarriesToken(last.header)
      /\ last.header.jwt.sig = JWT_SECRET
      /\ last.lookups = 0) =>
        /\ now >= last.header.jwt.exp
        /\ last.status = 401
        /\ last.message = "Token expired"

C19_Witness ==
  /\ last.route = "profile"
  /\ last.status = 200
  /\ last.header.jwt.iat = 0
  /\ now = DefaultExpiresIn - 1
  /\ last.header.jwt.exp = now + 1

\* C20: no step of registerUser, loginUser or logoutUser revokes a token:
\* a token verifyToken accepted before the step is accepted after it, for
\* the same record; logoutUser changes neither the store nor the tokens.
C20_NoRevocation ==
  [][ /\ (\/ last'.route \in {"register", "login", "logout"}
          \/ \E e \in Entered \cup Left : e.route \in {"register", "login", "logout"}) =>
           \A tok \in wallet :
             Accepts(tok, users, now) =>
               /\ Accepts(tok, users', now')
               /\ User_findById(users', tok.id) = User_findById(users, tok.id)
      /\ last'.route = "logout" =>
           /\ users' = users
           /\ wallet' = wallet
           /\ nextId' = nextId
           /\ now' = now
           /\ Entered = {}
           /\ \A e \in Left : e.route = "logout"
           /\ last'.token = NoToken ]_vars

C20_Witness ==
  /\ last.route = "logout"
  /\ last.status = 200
  /\ \E tok \in wallet :
       /\ Accepts(tok, users, now)
       /\ \E u \in Account(last.input.body) : u.id = tok.id

(***************************************************************************)
(* Further properties of the auth gate, checked under SpecGate.            *)
(***************************************************************************)
PostReadRoutes == {"getPosts", "getPost"}

PostWriteRoutes == {"create", "update", "delete"}

\* C21 as claimed: listing posts and fetching one post need no
\* authentication, a request without an Authorization header reaches the
\* handler and is served; create, update and delete need a valid token.
C21_ReadsArePublic ==
  /\ (last.route \in PostReadRoutes /\ ~last.header.present) =>
       /\ Invoked(ProtectedHandler[last.route])
       /\ last.status \notin {401, 500}
  /\ (last.route \in PostWriteRoutes /\ Invoked(ProtectedHandler[last.route])) =>
       Vouched(last.header, last.reqUser)

\* C21 as amended: all five post operations need a valid token; a request
\* to list posts or to fetch one post without an Authorization header is
\* answered 401 'Access token required' and does not reach the handler.
C21_ReadsNeedToken ==
  /\ (last.route \in PostReadRoutes /\ ~last.header.present) =>
       /\ last.status = 401
       /\ last.message = "Access token required"
       /\ ~Invoked(ProtectedHandler[last.route])
       /\ NothingServed
  /\ (/\ last.route \in PostReadRoutes \cup PostWriteRoutes
      /\ Invoked(ProtectedHandler[last.route])) =>
        /\ Vouched(last.header, last.reqUser)
        /\ last.lookups = 1
  /\ \A e \in Waiting : e.route \in PostReadRoutes \cup PostWriteRoutes =>
       /\ e.header.present
       /\ Verified(e)
       /\ e.stage # "findById" => Vouched(e.header, e.user)

C21_Witness ==
  /\ last.route = "getPosts"
  /\ ~last.header.present
  /\ posts # {}
  /\ last.status = 401

\* C24: when the store lookup of verifyToken fails for a correctly signed,
\* unexpired token, the gate answers 500 with the body 'Internal server
\* error' and nothing else, leaves req.user unset and does not call next().
C24_GateStoreFailure ==
  /\ (last.route \in ProtectedRoutes /\ ~last.input.gateUp) =>
       /\ CarriesToken(last.header)
       /\ last.header.jwt.sig = JWT_SECRET
       /\ last.status = 500
       /\ last.message = "Internal server error"
       /\ GateEnded
       /\ last.lookups = 1
       /\ last.reqUser = NoRecord
       /\ NothingServed
  /\ \A e \in Waiting : e.route \in ProtectedRoutes => e.input.gateUp

C24_Witness ==
  /\ last.route = "create"
  /\ Authentic(last.header)
  /\ ~last.input.gateUp
  /\ last.status = 500
  /\ last.ran = <<"verifyToken">>

\* C25: a verifyToken invocation that rejects leaves req.user unset and
\* both stores as they were; every invocation reads the credential store
\* at most once and writes nothing to it.
C25_RejectionHasNoSideEffect ==
  [][ /\ GateEndedIn(last') =>
           /\ last'.reqUser = NoRecord
           /\ last'.status \in {401, 500}
           /\ users' = users
           /\ posts' = posts
           /\ nextId' = nextId
           /\ nextPostId' = nextPostId
           /\ wallet' = wallet
           /\ Entered = {}
      /\ last'.route \in ProtectedRoutes =>
           /\ last'.lookups \in {0, 1}
           /\ users' = users
      /\ \A e \in Entered : e.route \in ProtectedRoutes =>
           /\ users' = users
           /\ e.stage = "findById" => e.user = NoRecord ]_vars

C25_Witness ==
  /\ last.route = "delete"
  /\ GateEnded
  /\ last.message = "Token expired"
  /\ Subjects(last.header.jwt) # {}
  /\ posts # {}
  /\ last.lookups = 0

(***************************************************************************)
(* Further properties of the user API, checked under Spec.                 *)
(***************************************************************************)
\* the fields of the user object of a success payload
PublicFields == {"id", "email", "username"}

\* C22: no response of registerUser, loginUser, logoutUser or getProfile
\* carries the password or its hash, and neither does the record verifyToken
\* attaches as req.user; a success payload exposes id, email and username of
\* the record, with a token for register and login only.
C22_NoPasswordExposed ==
  [][ /\ DOMAIN last'.user = PublicFields
      /\ last'.reqUser.password = NoPassword
      /\ \A e \in Entered : e.route = "profile" => e.user.password = NoPassword
      /\ last'.user # NoUserInfo =>
           /\ last'.status \in {200, 201}
           /\ \/ /\ last'.route = "profile"
                 /\ \E u \in users : last'.user = UserInfo(u)
              \/ /\ last'.route \in {"register", "login"}
                 /\ \E e \in Left : last'.user = UserInfo(e.user)
      /\ last'.token # NoToken =>
           /\ last'.route \in {"register", "login"}
           /\ last'.token.id = last'.user.id
      /\ (last'.route = "profile" /\ last'.status = 200) =>
           /\ last'.reqUser # NoRecord
           /\ last'.user = UserInfo(last'.reqUser) ]_vars

C22_Witness ==
  /\ last.route = "profile"
  /\ last.status = 200
  /\ last.reqUser.id = last.header.jwt.id
  /\ \E u \in users : u.id = last.reqUser.id /\ u.password.kind = "bcrypt"

\* C23: one registerUser request validates presence, then checks the email,
\* then hashes, then persists, then issues the token: a record is created
\* only by a request that passed the check, it is created hashed, a token is
\* issued only for the record just persisted, and a request that fails does
\* nothing of what follows the failing step.
C23_RegisterStepsInOrder ==
  [][ /\ \A e \in Entered :
           Pending(e, "register", "findOne") =>
             /\ AllPresent(e.input.body)
             /\ Left = {}
             /\ users' = users
             /\ last' = NoRequest
      /\ \A e \in Entered :
           Pending(e, "register", "create") =>
             /\ \E f \in Left : Pending(f, "register", "findOne") /\ f.input = e.input
             /\ AllPresent(e.input.body)
             /\ ~ \E u \in users : u.email = Normalized(e.input.body.email.s)
             /\ users' = users
             /\ last' = NoRequest
      /\ users' \ users # {} =>
           /\ last' = NoRequest
           /\ \E e \in Left, f \in Entered :
                /\ Pending(e, "register", "create")
                /\ Pending(f, "register", "token")
                /\ f.input = e.input
                /\ users' = users \cup {f.user}
                /\ f.user.password.kind = "bcrypt"
      /\ (last'.route = "register" /\ last'.token # NoToken) =>
           /\ last'.status = 201
           /\ users' = users
           /\ \E e \in Left : Pending(e, "register", "token") /\ e.user.id = last'.token.id
      /\ (last'.route = "register" /\ last'.status # 201) =>
           /\ users' = users
           /\ last'.token = NoToken
           /\ wallet' = wallet
           /\ Entered = {}
           /\ last'.input.step = "" => inflight' = inflight
           /\ last'.input.step = "findOne" =>
                \E e \in Left : Pending(e, "register", "findOne")
           /\ last'.input.step = "create" =>
                \E e \in Left : e.route = "register" /\ e.stage \in {"create", "token"} ]_vars

C23_Witness ==
  /\ last.route = "register"
  /\ last.input.step = "create"
  /\ last.status = 201
  /\ Cardinality(users) = 2
  /\ now > 0
  /\ last.token.iat = now
  /\ \E u \in users : u.id = last.token.id /\ u.password.kind = "bcrypt"

\* the statuses the user API answers with
Statuses == {200, 201, 400, 401, 409, 500}

\* C26: every invocation ends with exactly one outcome: verifyToken calls
\* next() or sends a response, never both and never neither; registerUser,
\* loginUser, logoutUser and getProfile send one response each, 500 when a
\* store call fails, and a suspended registerUser is answered once and not
\* retried.
C26_ExactlyOneOutcome ==
  [][ /\ last'.route = "profile" =>
           \A h \in Headers, up \in BOOLEAN :
             LET g == verifyToken(h, users, up, now)
             IN  /\ g.next <=> g.status = 0
                 /\ ~g.next => g.status \in {401, 500} /\ g.message # ""
      /\ last' # NoRequest =>
           /\ last'.status \in Statuses
           /\ \/ last'.ran = Chain(last'.route)
              \/ last'.ran = <<"verifyToken">> /\ last'.status \in {401, 500}
           /\ Entered = {}
           /\ \/ Left = {} /\ inflight' = inflight
              \/ \E e \in Left : /\ e.route = last'.route
                                  /\ inflight' = inflight (-) SetToBag({e})
      /\ (last'.route = "register" /\ last'.input.step = "") =>
           inflight' = inflight
      /\ (last'.route = "register" /\ last'.input.step \in {"findOne", "create"}) =>
           \E e \in Left : e.route = "register" /\ e.input.body = last'.input.body
      /\ BagCardinality(inflight') <= BagCardinality(inflight) + 1
      /\ (/\ last'.route \in {"register", "login", "logout"}
          /\ ~last'.input.storeUp
          /\ last'.status # 400) => last'.status = 500 ]_vars

C26_Witness ==
  /\ last.route = "register"
  /\ last.input.step = "create"
  /\ ~last.input.storeUp
  /\ last.status = 500
  /\ inflight # EmptyBag

(***************************************************************************)
(* The pre-save hook on existing records, checked under SpecSave.          *)
(***************************************************************************)
\* the record with this id
RecordOf(store, id) == CHOOSE u \in store : u.id = id

\* the plaintexts tried against a record
Candidates == {Pass_secret, Pass_Secret, Pass_short}

\* C27: the pre-save hook hashes only a new record or one whose password
\* was modified: saving an existing record without modifying its password
\* leaves the stored hash as it was, so the passwords that verified before
\* the save verify after it and no others; a save that modifies the
\* password stores the hash of the new one.
C27_UnmodifiedSaveKeepsHash ==
  [][ /\ \A u \in users, salt \in 1..MaxIds : PreSave(u, FALSE, FALSE, salt) = u
      /\ last'.route = "save" =>
           LET id  == last'.user.id
               old == RecordOf(users, id)
               new == RecordOf(users', id)
               pw  == last'.input.body.password
           IN  /\ {u.id : u \in users'} = {u.id : u \in users}
               /\ users' \ {new} = users \ {old}
               /\ IF pw = Undefined
                    THEN /\ new.password = old.password
                         /\ \A c \in Candidates :
                              Verifies(new, c) <=> Verifies(old, c)
                  ELSE IF last'.error # "" THEN new = old
                  ELSE /\ new.password.kind = "bcrypt"
                       /\ new.password.of = pw.s
                       /\ Verifies(new, pw.s) ]_vars

C27_Witness ==
  /\ last.route = "save"
  /\ last.input.body.password = Undefined
  /\ \E u \in users :
       /\ u.id = last.user.id
       /\ u.password.kind = "bcrypt"
       /\ \E b \in GateBodies : Verifies(u, b.password.s)

(***************************************************************************)
(* Properties of the post API, checked under SpecPosts.                    *)
(***************************************************************************)
\* the handler of the route answered the request of the last step
Handled(route) == last.route = route /\ last.ran = Chain(route)

\* the ids of the posts of a collection
PostIdsOf(store) == {d.id : d \in store}

\* the page getAllPosts answers for a query
PageOf(qy) ==
  LET pg == ParseInt(qy.page)
  IN  IF qy.page = Undefined \/ pg.nan \/ pg.n < 1 THEN PageDefault ELSE pg.n

\* the limit getAllPosts answers for a query
LimitOf(qy) ==
  LET lim == ParseInt(qy.limit)
  IN  IF qy.limit = Undefined \/ lim.nan \/ lim.n = 0 THEN LimitDefault
      ELSE IF lim.n > LimitCap THEN LimitCap
      ELSE IF lim.n < 1 THEN 1
      ELSE lim.n

\* data is a page of the posts hits, the later created first: each post
\* stands where the posts created later and those created at the same
\* time leave room for it
IsPage(data, hits, page, limit) ==
  /\ Len(data) = Min(limit, Max(Cardinality(hits) - (page - 1) * limit, 0))
  /\ \A i \in DOMAIN data : data[i] \in hits
  /\ \A i, j \in DOMAIN data :
       i < j => data[i] # data[j] /\ ~Later(data[j].createdAt, data[i].createdAt)
  /\ \A i \in DOMAIN data :
       LET place == (page - 1) * limit + i
       IN  /\ Cardinality({d \in hits : Later(d.createdAt, data[i].createdAt)}) < place
           /\ Cardinality({d \in hits : ~Later(data[i].createdAt, d.createdAt)}) >= place

\* pages is max(ceil(total / limit), 1)
IsPages(pages, total, limit) ==
  /\ pages >= 1
  /\ pages * limit >= total
  /\ pages > 1 => (pages - 1) * limit < total

\* C28: getAllPosts answers page >= 1 (1 by default) and limit in 1..100
\* (10 by default and when it parses to 0 or to no number, 100 when above),
\* skips (page - 1) * limit posts, returns at most limit posts, all matching
\* the filter, counts total under the same filter and reports
\* pages = max(ceil(total / limit), 1).  The posts are those Post.find reads
\* and total is what Post.countDocuments reads, each in its own step.
C28_Pagination ==
  [][ \A e \in Left :
        (e.route = "getPosts" /\ e.stage # "findById") =>
          LET qy   == e.input.query
              hits == Matching(posts, PostFilter(qy.q))
              m    == last'.meta
          IN  /\ \A f \in Entered :
                   /\ e.stage = "store"
                   /\ f.stage = "find" =>
                        /\ f.meta.total = Cardinality(hits)
                        /\ IsPages(f.meta.pages, f.meta.total, LimitOf(qy))
                   /\ f.stage = "count" =>
                        /\ IsPage(f.data, hits, PageOf(qy), LimitOf(qy))
                        /\ f.meta.count = Len(f.data)
              /\ (last'.route = "getPosts" /\ last'.status = 200) =>
                   /\ e.stage \in {"find", "count"}
                   /\ m.page = PageOf(qy)
                   /\ m.page >= 1
                   /\ m.limit = LimitOf(qy)
                   /\ m.limit \in 1..LimitCap
                   /\ m.count = Len(last'.data)
                   /\ m.count <= m.limit
                   /\ IsPages(m.pages, m.total, m.limit)
                   /\ IF e.stage = "find"
                        THEN /\ IsPage(last'.data, hits, m.page, m.limit)
                             /\ m.total = e.meta.total
                        ELSE /\ m.total = Cardinality(hits)
                             /\ last'.data = e.data ]_vars

C28_Witness ==
  /\ Handled("getPosts")
  /\ last.status = 200
  /\ last.input.query.q # Undefined
  /\ last.meta = [total |-> 2, count |-> 1, page |-> 2, pages |-> 2, limit |-> 1]

\* a provided field of a type other than the one the schema declares
WronglyTyped(v, type) == v.t # "undefined" /\ v.t # type

\* an update body one of updatePost's own type checks refuses
RefusedUpdate(b) ==
  \/ ~Falsy(b.name) /\ WronglyTyped(b.name, "string")
  \/ ~Falsy(b.description) /\ WronglyTyped(b.description, "string")
  \/ WronglyTyped(b.age, "number")

\* an update body that passes the type checks with a value the schema does
\* not accept
UnstorableUpdate(b) ==
  \/ /\ b.name # Undefined
     /\ Trim(CastString(b.name)) = <<>> \/ Len(Trim(CastString(b.name))) > NameMaxLength
  \/ /\ b.description # Undefined
     /\ Trim(CastString(b.description)) = <<>>
  \/ /\ b.age # Undefined
     /\ b.age.n < AgeMin \/ b.age.n > AgeMax

\* a request to route for a post that was created and is no longer in the
\* collection is answered in this step, the store answering
AnsweredForDeleted(route) ==
  /\ last'.route = route
  /\ last'.ran = Chain(route)
  /\ last'.input.storeUp
  /\ last'.input.id.castable
  /\ last'.input.id.oid < nextPostId
  /\ last'.input.id.oid \notin PostIdsOf(posts)

C30_ValidatedBeforeStore ==
  [][ /\ (last'.route = "create" /\ last'.ran = Chain("create")) =>
           LET b == last'.input.post
           IN  /\ (\/ Falsy(b.name) \/ Falsy(b.description) \/ b.age = Undefined
                   \/ WronglyTyped(b.name, "string")
                   \/ WronglyTyped(b.description, "string")
                   \/ WronglyTyped(b.age, "number")) =>
                    (last'.status = 400 /\ posts' = posts)
               /\ (b = PostBody(Str(Name_amy), Str(Name_Bob), Num(0))
                     /\ last'.input.storeUp) => last'.status = 201
      /\ (last'.route = "update" /\ last'.ran = Chain("update")) =>
           LET b == last'.input.post
           IN  (\/ ~b.keys
                \/ WronglyTyped(b.name, "string")
                \/ WronglyTyped(b.description, "string")
                \/ WronglyTyped(b.age, "number")) =>
                 (last'.status = 400 /\ posts' = posts) ]_vars
====
